---- MODULE Spec2Model ----
(***************************************************************************)
(* Model of the email receipt scraper: the receipt extraction engine       *)
(* (src/src/receipt_parser.py) and the orchestrator that filters and       *)
(* persists its records (src/email_receipt_scraper.py).                    *)
(*                                                                         *)
(* Texts are TLA+ strings handled character by character.  Regular         *)
(* expressions are syntax trees interpreted by a backtracking matcher that *)
(* follows the priority order of Python's re module (leftmost start,       *)
(* ordered alternatives, greedy and lazy repetition).  Amounts of money    *)
(* are kept in cents: every monetary pattern captures exactly two decimal  *)
(* digits, so float(text) is the integer number of cents divided by 100.   *)
(***************************************************************************)
EXTENDS Integers, Sequences, FiniteSets, TLC

(***************************************************************************)
(* Characters and strings                                                  *)
(***************************************************************************)
UpperLetters == "ABCDEFGHIJKLMNOPQRSTUVWXYZ"
LowerLetters == "abcdefghijklmnopqrstuvwxyz"
DigitChars == "0123456789"

RECURSIVE CharsOf(_)
CharsOf(s) == IF s = "" THEN {} ELSE {SubSeq(s, 1, 1)} \cup CharsOf(Tail(s))

UpperSet == CharsOf(UpperLetters)
LowerSet == CharsOf(LowerLetters)
DigitSet == CharsOf(DigitChars)
LetterSet == UpperSet \cup LowerSet
\* \w, \s and \d of Python's re, restricted to ASCII
WordSet == LetterSet \cup DigitSet \cup {"_"}
SpaceSet == {" ", "\t", "\n", "\r", "\f"}

LowerMap == [c \in UpperSet |->
               LET k == CHOOSE j \in 1..26 : SubSeq(UpperLetters, j, j) = c
               IN  SubSeq(LowerLetters, k, k)]
UpperMap == [c \in LowerSet |->
               LET k == CHOOSE j \in 1..26 : SubSeq(LowerLetters, j, j) = c
               IN  SubSeq(UpperLetters, k, k)]

LowerCh(c) == IF c \in UpperSet THEN LowerMap[c] ELSE c

\* str.lower(), by halves
RECURSIVE Lower(_)
Lower(s) ==
    IF Len(s) <= 1 THEN LowerCh(s)
    ELSE Lower(SubSeq(s, 1, Len(s) \div 2)) \o Lower(SubSeq(s, Len(s) \div 2 + 1, Len(s)))

\* the Python test `sub in s`
Contains(s, sub) ==
    \E i \in 1..(Len(s) - Len(sub) + 1) : SubSeq(s, i, i + Len(sub) - 1) = sub

\* str.strip()
RECURSIVE LStrip(_)
LStrip(s) == IF s # "" /\ SubSeq(s, 1, 1) \in SpaceSet THEN LStrip(Tail(s)) ELSE s
RECURSIVE RStrip(_)
RStrip(s) == IF s # "" /\ SubSeq(s, Len(s), Len(s)) \in SpaceSet
             THEN RStrip(SubSeq(s, 1, Len(s) - 1)) ELSE s
Strip(s) == RStrip(LStrip(s))

\* str.replace(old, '') for a one-character old
RECURSIVE RemoveCh(_, _)
RemoveCh(s, c) ==
    IF Len(s) <= 1 THEN (IF s = c THEN "" ELSE s)
    ELSE RemoveCh(SubSeq(s, 1, Len(s) \div 2), c)
         \o RemoveCh(SubSeq(s, Len(s) \div 2 + 1, Len(s)), c)

(***************************************************************************)
(* Regular expressions (Python re): syntax trees and matcher               *)
(***************************************************************************)
Unbounded == 1000000

Lit(s) == [t |-> "lit", s |-> s]
Set(cs) == [t |-> "set", cs |-> cs, neg |-> FALSE]
NotSet(cs) == [t |-> "set", cs |-> cs, neg |-> TRUE]
Alt(as) == [t |-> "alt", as |-> as]
Rep(r, lo, hi) == [t |-> "rep", r |-> r, lo |-> lo, hi |-> hi, lazy |-> FALSE]
LazyRep(r, lo, hi) == [t |-> "rep", r |-> r, lo |-> lo, hi |-> hi, lazy |-> TRUE]
Grp(g, r) == [t |-> "grp", g |-> g, r |-> r]
Eos == [t |-> "eos"]
Star(n) == Rep(<<n>>, 0, Unbounded)
Plus(n) == Rep(<<n>>, 1, Unbounded)
Opt(n) == Rep(<<n>>, 0, 1)
\* (?:a|b|c) over literal words
Words(ws) == Alt([k \in 1..Len(ws) |-> <<Lit(ws[k])>>])

NoGroups == [g \in 1..3 |-> <<0, 0>>]
NoMatch == [ok |-> FALSE, b |-> 0, e |-> 0, c |-> NoGroups]

Dec(n) == IF n > 0 THEN n - 1 ELSE 0

\* one character of a class; under IGNORECASE the text has been lower-cased
\* and a class holding the upper-case letter accepts its lower-case form
InClass(n, c, ic) ==
    LET in == c \in n.cs \/ (ic /\ c \in LowerSet /\ UpperMap[c] \in n.cs)
    IN  IF n.neg THEN ~in ELSE in

\* the first position in lo..hi whose character is outside the class n,
\* hi + 1 when there is none
RECURSIVE FirstStop(_, _, _, _, _)
FirstStop(s, n, lo, hi, ic) ==
    IF lo > hi THEN hi + 1
    ELSE IF lo = hi THEN (IF InClass(n, SubSeq(s, lo, lo), ic) THEN hi + 1 ELSE lo)
         ELSE LET mid == (lo + hi) \div 2
                  left == FirstStop(s, n, lo, mid, ic)
              IN  IF left <= mid THEN left ELSE FirstStop(s, n, mid + 1, hi, ic)

Min(a, b) == IF a <= b THEN a ELSE b

\* MatchHere(s, k, i, c, ic): match the node sequence k at position i of s;
\* the first success in backtracking order, or NoMatch
RECURSIVE MatchHere(_, _, _, _, _)
RECURSIVE MatchAlt(_, _, _, _, _, _, _)
RECURSIVE MatchCounts(_, _, _, _, _, _, _, _)
MatchHere(s, k, i, c, ic) ==
    IF k = <<>> THEN [ok |-> TRUE, b |-> 0, e |-> i, c |-> c]
    ELSE LET n == Head(k)
             rest == Tail(k)
         IN CASE n.t = "lit" ->
                   IF i + Len(n.s) - 1 <= Len(s) /\ SubSeq(s, i, i + Len(n.s) - 1) = n.s
                   THEN MatchHere(s, rest, i + Len(n.s), c, ic)
                   ELSE NoMatch
              [] n.t = "set" ->
                   IF i <= Len(s) /\ InClass(n, SubSeq(s, i, i), ic)
                   THEN MatchHere(s, rest, i + 1, c, ic)
                   ELSE NoMatch
              [] n.t = "eos" ->
                   IF i = Len(s) + 1 THEN MatchHere(s, rest, i, c, ic) ELSE NoMatch
              [] n.t = "alt" -> MatchAlt(s, n.as, 1, rest, i, c, ic)
              [] n.t = "grp" ->
                   MatchHere(s, <<[t |-> "gs", g |-> n.g]>> \o n.r
                                \o <<[t |-> "ge", g |-> n.g]>> \o rest, i, c, ic)
              [] n.t = "gs" ->
                   MatchHere(s, rest, i, [c EXCEPT ![n.g] = <<i, i>>], ic)
              [] n.t = "ge" ->
                   MatchHere(s, rest, i, [c EXCEPT ![n.g] = <<c[n.g][1], i>>], ic)
              [] n.t = "rep" /\ Len(n.r) = 1 /\ n.r[1].t = "set" ->
                   \* a repeated character class: the counts the run of class
                   \* characters allows, longest first, or shortest first if lazy
                   LET last == Min(Len(s), i + n.hi - 1)
                       run == FirstStop(s, n.r[1], i, last, ic) - i
                   IN  MatchCounts(s, rest, i, c, ic, n.lo, run, n.lazy)
              [] n.t = "rep" ->
                   LET more == IF n.hi > 0
                               THEN MatchHere(s, n.r \o <<[n EXCEPT !.lo = Dec(n.lo),
                                                                   !.hi = n.hi - 1]>>
                                                 \o rest, i, c, ic)
                               ELSE NoMatch
                   IN  IF n.lo > 0 THEN more
                       ELSE IF n.lazy
                            THEN LET skip == MatchHere(s, rest, i, c, ic)
                                 IN  IF skip.ok THEN skip ELSE more
                            ELSE IF more.ok THEN more
                                 ELSE MatchHere(s, rest, i, c, ic)

\* the first success of rest after a..b repetitions of one character
MatchCounts(s, rest, i, c, ic, a, b, lazy) ==
    IF a > b THEN NoMatch
    ELSE IF a = b THEN MatchHere(s, rest, i + a, c, ic)
         ELSE LET mid == (a + b) \div 2
                  low == MatchCounts(s, rest, i, c, ic, a, mid, lazy)
                  high == MatchCounts(s, rest, i, c, ic, mid + 1, b, lazy)
              IN  IF lazy THEN (IF low.ok THEN low ELSE high)
                  ELSE (IF high.ok THEN high ELSE low)

MatchAlt(s, as, j, rest, i, c, ic) ==
    IF j > Len(as) THEN NoMatch
    ELSE LET r == MatchHere(s, as[j] \o rest, i, c, ic)
         IN  IF r.ok THEN r ELSE MatchAlt(s, as, j + 1, rest, i, c, ic)

\* the characters a match of p can begin with, when p begins with a literal
\* or with a choice of literals; any = TRUE when p begins otherwise
FirstChars(p) ==
    IF p # <<>> /\ p[1].t = "lit" /\ p[1].s # ""
    THEN [any |-> FALSE, cs |-> {SubSeq(p[1].s, 1, 1)}]
    ELSE IF p # <<>> /\ p[1].t = "alt"
            /\ \A a \in 1..Len(p[1].as) :
                  /\ p[1].as[a] # <<>>
                  /\ p[1].as[a][1].t = "lit"
                  /\ p[1].as[a][1].s # ""
         THEN [any |-> FALSE,
               cs |-> {SubSeq(p[1].as[a][1].s, 1, 1) : a \in 1..Len(p[1].as)}]
         ELSE [any |-> TRUE, cs |-> {}]

\* the match at the least start position in lo..hi, found by halving the
\* range; a position whose character cannot begin a match is passed over
RECURSIVE SearchRange(_, _, _, _, _, _)
SearchRange(s, p, first, lo, hi, ic) ==
    IF lo > hi THEN NoMatch
    ELSE IF lo = hi
         THEN IF ~first.any /\ (lo > Len(s) \/ SubSeq(s, lo, lo) \notin first.cs)
              THEN NoMatch
              ELSE LET r == MatchHere(s, p, lo, NoGroups, ic)
                   IN  IF r.ok THEN [r EXCEPT !.b = lo] ELSE NoMatch
         ELSE LET mid == (lo + hi) \div 2
                  left == SearchRange(s, p, first, lo, mid, ic)
              IN  IF left.ok THEN left ELSE SearchRange(s, p, first, mid + 1, hi, ic)

SearchFrom(s, p, i, ic) == SearchRange(s, p, FirstChars(p), i, Len(s) + 1, ic)

\* the literals of a pattern in lower case, for matching under IGNORECASE
RECURSIVE FoldCase(_)
FoldCase(p) ==
    [j \in 1..Len(p) |->
        CASE p[j].t = "lit" -> Lit(Lower(p[j].s))
          [] p[j].t = "alt" ->
               Alt([a \in 1..Len(p[j].as) |-> FoldCase(p[j].as[a])])
          [] p[j].t \in {"rep", "grp"} -> [p[j] EXCEPT !.r = FoldCase(p[j].r)]
          [] OTHER -> p[j]]

\* re.search(pattern, text) and re.search(pattern, text, re.IGNORECASE)
ReSearch(p, text) == SearchFrom(text, p, 1, FALSE)
ReSearchI(p, text) == SearchFrom(Lower(text), FoldCase(p), 1, TRUE)

\* match.group(g), taken from the original text
Group(m, text, g) == SubSeq(text, m.c[g][1], m.c[g][2] - 1)

\* re.findall(pattern, text): the non-overlapping matches, left to right
RECURSIVE FindAllFrom(_, _, _)
FindAllFrom(s, p, i) ==
    LET m == SearchFrom(s, p, i, FALSE)
    IN  IF ~m.ok THEN <<>>
        ELSE <<m>> \o (IF m.e > Len(s) THEN <<>>
                       ELSE FindAllFrom(s, p, IF m.e > m.b THEN m.e ELSE m.e + 1))
ReFindAll(p, text) == FindAllFrom(text, p, 1)

(***************************************************************************)
(* Python values held by a record field: None, a str, a float or a list.   *)
(* n is the number of cents for an amount of money and the number of       *)
(* ConfidenceScale-ths for a confidence.                                   *)
(***************************************************************************)
None == [k |-> "None", s |-> "", n |-> 0, l |-> <<>>]
Str(x) == [k |-> "str", s |-> x, n |-> 0, l |-> <<>>]
Float(x) == [k |-> "float", s |-> "", n |-> x, l |-> <<>>]
List(x) == [k |-> "list", s |-> "", n |-> 0, l |-> x]
\* the truth value Python gives to `if v:`
Truthy(v) == \/ v.k = "str" /\ v.s # ""
             \/ v.k = "float" /\ v.n # 0
             \/ v.k = "list" /\ v.l # <<>>

DigitVal == [c \in DigitSet |-> (CHOOSE j \in 1..10 : SubSeq(DigitChars, j, j) = c) - 1]

\* int(s) for a string of decimal digits
RECURSIVE ToInt(_)
ToInt(s) == IF s = "" THEN 0
            ELSE 10 * ToInt(SubSeq(s, 1, Len(s) - 1)) + DigitVal[SubSeq(s, Len(s), Len(s))]

IsDigits(s) == \A i \in 1..Len(s) : SubSeq(s, i, i) \in DigitSet

\* float(s), in cents, for s of the shape digits* '.' digit digit; a
\* ValueError for any other text
ToFloat(s) ==
    LET n == Len(s)
    IN  IF n >= 3 /\ SubSeq(s, n - 2, n - 2) = "."
           /\ IsDigits(SubSeq(s, 1, n - 3)) /\ IsDigits(SubSeq(s, n - 1, n))
        THEN [ok |-> TRUE, v |-> 100 * ToInt(SubSeq(s, 1, n - 3)) + ToInt(SubSeq(s, n - 1, n))]
        ELSE [ok |-> FALSE, v |-> 0]

(***************************************************************************)
(* ReceiptParser.__init__: the generic pattern table                       *)
(***************************************************************************)
Ws == Set(SpaceSet)
Digit == Set(DigitSet)
Alpha == Set(LetterSet)
\* [$€£] ; the message alphabet is ASCII, so only '$' can occur
Currency == Set({"$"})
\* (?:\s+\w+){0,3}?
Filler == LazyRep(<<Plus(Ws), Plus(Set(WordSet))>>, 0, 3)
\* ([0-9,]+\.[0-9]{2})
Amount == Grp(1, <<Plus(Set(DigitSet \cup {","})), Lit("."), Rep(<<Digit>>, 2, 2)>>)

MoneyPatterns(kw) ==
    << <<Words(kw), Filler, Star(Ws), Set({":"}), Star(Ws), Opt(Currency), Amount>>,
       <<Words(kw), Filler, Star(Ws), Currency, Amount>>,
       <<Words(kw), Filler, Star(Ws), Lit("$"), Star(Ws), Amount>>,
       <<Words(kw), Filler, Star(Ws), Lit("$"), Amount>>,
       <<Words(kw), Filler, Star(Ws), Amount>> >>

DateHead == <<Words(<<"date", "purchased", "order date", "invoice date">>),
              Filler, Star(Ws), Set({":"}), Star(Ws)>>
\* [A-Za-z]{3,9}\.?\s+\d{1,2},?\s+\d{4}
MonthDayYear == <<Rep(<<Alpha>>, 3, 9), Opt(Lit(".")), Plus(Ws), Rep(<<Digit>>, 1, 2),
                  Opt(Lit(",")), Plus(Ws), Rep(<<Digit>>, 4, 4)>>
DatePatterns ==
    << DateHead \o <<Grp(1, MonthDayYear)>>,
       DateHead \o <<Grp(1, <<Rep(<<Digit>>, 1, 2), Set({"/", "-"}), Rep(<<Digit>>, 1, 2),
                              Set({"/", "-"}), Rep(<<Digit>>, 2, 4)>>)>>,
       DateHead \o <<Grp(1, <<Rep(<<Digit>>, 4, 4), Set({"/", "-"}), Rep(<<Digit>>, 1, 2),
                              Set({"/", "-"}), Rep(<<Digit>>, 1, 2)>>)>>,
       DateHead \o <<Grp(1, MonthDayYear)>>,
       DateHead \o <<Grp(1, <<Rep(<<Digit>>, 1, 2), Plus(Ws), Rep(<<Alpha>>, 3, 9),
                              Opt(Lit(".")), Plus(Ws), Rep(<<Digit>>, 4, 4)>>)>>,
       DateHead \o <<Grp(1, <<Rep(<<Digit>>, 4, 4), Plus(Ws), Rep(<<Alpha>>, 3, 9),
                              Opt(Lit(".")), Plus(Ws), Rep(<<Digit>>, 1, 2)>>)>> >>

\* ([A-Za-z0-9\s&\',\.]+)
VendorText == Grp(1, <<Plus(Set(LetterSet \cup DigitSet \cup SpaceSet \cup {"&", "'", ",", "."}))>>)
VendorPatterns ==
    << <<Words(<<"from", "vendor", "merchant", "store", "retailer">>),
         Filler, Star(Ws), Set({":"}), Star(Ws), VendorText>>,
       <<Words(<<"thank you for shopping at", "thank you for your order from",
                 "thank you for your purchase from">>), Filler, Star(Ws), VendorText>>,
       <<Words(<<"receipt from", "order from", "purchase from">>),
         Filler, Star(Ws), VendorText>> >>

OrderHead == <<Words(<<"order", "confirmation", "reference", "invoice", "receipt">>),
               Filler, Star(Ws)>>
\* ([A-Za-z0-9\-]+)
OrderText == Grp(1, <<Plus(Set(LetterSet \cup DigitSet \cup {"-"}))>>)
OrderPatterns ==
    << OrderHead \o <<Words(<<"number", "#", "no", "id">>), Filler, Star(Ws),
                      Set({":"}), Star(Ws), OrderText>>,
       OrderHead \o <<Words(<<"number", "#", "no", "id">>), Filler, Star(Ws), OrderText>>,
       OrderHead \o <<Words(<<"#", "no", "id">>), Filler, Star(Ws),
                      Set({":"}), Star(Ws), OrderText>> >>

\* self.patterns, with the order in which the dict is iterated
patterns ==
    [total |-> MoneyPatterns(<<"total", "amount", "sum">>),
     date |-> DatePatterns,
     vendor |-> VendorPatterns,
     order_number |-> OrderPatterns,
     subtotal |-> MoneyPatterns(<<"subtotal", "sub-total", "sub total">>),
     tax |-> MoneyPatterns(<<"tax", "vat", "gst", "hst", "pst">>),
     shipping |-> MoneyPatterns(<<"shipping", "delivery", "freight">>),
     discount |-> MoneyPatterns(<<"discount", "savings", "coupon", "promo">>)]
PatternFields == <<"total", "date", "vendor", "order_number",
                   "subtotal", "tax", "shipping", "discount">>

MoneyFields == {"total", "subtotal", "tax", "shipping", "discount"}

(***************************************************************************)
(* ReceiptParser.__init__: the vendor-specific pattern table.  Each entry  *)
(* is the list of (field, pattern) pairs of the dict, in its order; the    *)
(* 'vendor' entry holds the display name instead of a pattern.             *)
(***************************************************************************)
\* :\s*\$([0-9,]+\.[0-9]{2})
ColonDollarAmount == <<Lit(":"), Star(Ws), Lit("$"), Amount>>
\* ([A-Za-z]+\s+\d{1,2},\s+\d{4})
LongDate == Grp(1, <<Plus(Alpha), Plus(Ws), Rep(<<Digit>>, 1, 2), Lit(","), Plus(Ws),
                     Rep(<<Digit>>, 4, 4)>>)
\* (\d{1,2}/\d{1,2}/\d{2,4})
SlashDate == Grp(1, <<Rep(<<Digit>>, 1, 2), Lit("/"), Rep(<<Digit>>, 1, 2), Lit("/"),
                      Rep(<<Digit>>, 2, 4)>>)
\* ([A-Z0-9\-]+) and (\d+)
UpperId == Grp(1, <<Plus(Set(UpperSet \cup DigitSet \cup {"-"}))>>)
DigitId == Grp(1, <<Plus(Digit)>>)

vendor_patterns ==
    [amazon |->
       << <<"vendor", "Amazon">>,
          <<"total", <<Words(<<"Grand Total", "Order Total">>)>> \o ColonDollarAmount>>,
          <<"date", <<Words(<<"Order Placed", "Date">>), Lit(":"), Star(Ws), LongDate>>>>,
          <<"order_number", <<Opt(Words(<<"Order", "Confirmation">>)), Star(Ws), Lit("#"),
                              Star(Ws), UpperId>>>>,
          <<"items", <<Words(<<"Item(s) Subtotal", "Subtotal">>)>> \o ColonDollarAmount>> >>,
     walmart |->
       << <<"vendor", "Walmart">>,
          <<"total", <<Words(<<"Total", "Order Total">>)>> \o ColonDollarAmount>>,
          <<"date", <<Words(<<"Date", "Order Date">>), Lit(":"), Star(Ws), SlashDate>>>>,
          <<"order_number", <<Words(<<"Order", "Receipt">>), Lit(" #:"), Star(Ws), DigitId>>>> >>,
     target |->
       << <<"vendor", "Target">>,
          <<"total", <<Lit("Total")>> \o ColonDollarAmount>>,
          <<"date", <<Lit("Date"), Lit(":"), Star(Ws), SlashDate>>>>,
          <<"order_number", <<Lit("Receipt"), Lit(" #:"), Star(Ws), DigitId>>>> >>,
     starbucks |->
       << <<"vendor", "Starbucks">>,
          <<"total", <<Lit("Total")>> \o ColonDollarAmount>>,
          <<"date", <<Lit("Date"), Lit(":"), Star(Ws), LongDate>>>>,
          <<"order_number", <<Lit("Order"), Lit(" #:"), Star(Ws), DigitId>>>> >>,
     uber_eats |->
       << <<"vendor", "Uber Eats">>,
          <<"total", <<Lit("Total")>> \o ColonDollarAmount>>,
          <<"date", <<Lit("Date"), Lit(":"), Star(Ws), LongDate>>>>,
          <<"order_number", <<Lit("Order"), Lit(" #:"), Star(Ws), UpperId>>>> >>,
     doordash |->
       << <<"vendor", "DoorDash">>,
          <<"total", <<Lit("Total")>> \o ColonDollarAmount>>,
          <<"date", <<Lit("Date"), Lit(":"), Star(Ws), LongDate>>>>,
          <<"order_number", <<Lit("Order"), Lit(" #:"), Star(Ws), UpperId>>>> >>]

(***************************************************************************)
(* ReceiptParser._extract_text_from_html (BeautifulSoup, html.parser)      *)
(***************************************************************************)
\* index of the first occurrence of sub in s at or after i, 0 when none
IndexFrom(s, sub, i) ==
    LET hits == {j \in i..(Len(s) - Len(sub) + 1) : SubSeq(s, j, j + Len(sub) - 1) = sub}
    IN  IF hits = {} THEN 0 ELSE CHOOSE j \in hits : \A h \in hits : j <= h

StartsAt(s, i, sub) ==
    i + Len(sub) - 1 <= Len(s) /\ SubSeq(s, i, i + Len(sub) - 1) = sub

\* the strings of the document outside tags and outside script and style
\* elements, in document order
RECURSIVE TextNodes(_, _)
TextNodes(html, i) ==
    LET open == IndexFrom(html, "<", i)
        close == IndexFrom(html, ">", open)
        low == Lower(html)
        dropped == IF StartsAt(low, open, "<script") THEN "</script>"
                   ELSE IF StartsAt(low, open, "<style") THEN "</style>"
                   ELSE ""
        endtag == IF dropped = "" THEN 0 ELSE IndexFrom(low, dropped, open)
    IN  IF open = 0 \/ close = 0 THEN <<SubSeq(html, i, Len(html))>>
        ELSE <<SubSeq(html, i, open - 1)>>
             \o TextNodes(html, IF endtag # 0 THEN endtag + Len(dropped) ELSE close + 1)

\* str.split(sep) and the stripped non-empty pieces of a sequence of strings
RECURSIVE Split(_, _)
Split(s, sep) ==
    LET j == IndexFrom(s, sep, 1)
    IN  IF j = 0 THEN <<s>>
        ELSE <<SubSeq(s, 1, j - 1)>> \o Split(SubSeq(s, j + Len(sep), Len(s)), sep)

RECURSIVE Join(_, _)
Join(parts, sep) ==
    IF parts = <<>> THEN ""
    ELSE IF Len(parts) = 1 THEN parts[1]
         ELSE parts[1] \o sep \o Join(Tail(parts), sep)

StrippedNonEmpty(parts) ==
    SelectSeq([j \in 1..Len(parts) |-> Strip(parts[j])], LAMBDA x : x # "")

RECURSIVE SplitEach(_, _)
SplitEach(parts, sep) ==
    IF parts = <<>> THEN <<>>
    ELSE Split(Strip(parts[1]), sep) \o SplitEach(Tail(parts), sep)

\* soup.get_text(separator=' ', strip=True), then the lines split at double
\* spaces, trimmed, blank ones dropped and joined by newlines
HtmlToText(html) ==
    LET text == Join(StrippedNonEmpty(TextNodes(html, 1)), " ")
        lines == Split(text, "\n")
        chunks == SplitEach(lines, "  ")
    IN  Join(StrippedNonEmpty(chunks), "\n")

\* a conversion that gives no text when BeautifulSoup raises
_extract_text_or_empty(html, parsed) == IF parsed THEN HtmlToText(html) ELSE ""

\* parsed is FALSE when BeautifulSoup raises: the except branch returns html
_extract_text_from_html(html, parsed) == IF parsed THEN HtmlToText(html) ELSE html

HasMarkup(body) == Contains(Lower(body), "<html") \/ Contains(Lower(body), "<body")

(***************************************************************************)
(* ReceiptParser._identify_vendor                                          *)
(***************************************************************************)
receipt_keywords == <<"receipt", "order", "purchase", "confirmation", "invoice">>

domain_to_vendor ==
    << <<"amazon.com", "Amazon">>, <<"walmart.com", "Walmart">>,
       <<"target.com", "Target">>, <<"starbucks.com", "Starbucks">>,
       <<"uber.com", "Uber Eats">>, <<"doordash.com", "DoorDash">>,
       <<"bestbuy.com", "Best Buy">>, <<"homedepot.com", "Home Depot">>,
       <<"lowes.com", "Lowes">>, <<"costco.com", "Costco">>,
       <<"samsclub.com", "Sam's Club">>, <<"apple.com", "Apple">>,
       <<"microsoft.com", "Microsoft">>, <<"ebay.com", "eBay">>,
       <<"etsy.com", "Etsy">> >>

vendor_names == <<"Amazon", "Walmart", "Target", "Starbucks", "Uber Eats", "DoorDash",
                  "Best Buy", "Home Depot", "Lowes", "Costco", "Sam's Club", "Apple",
                  "Microsoft", "eBay", "Etsy">>

\* a gate that a known vendor name in the subject opens as well
IsReceiptOrNamesVendor(subject) ==
    \/ \E k \in 1..Len(receipt_keywords) :
          Contains(Lower(subject), Lower(receipt_keywords[k]))
    \/ \E k \in 1..Len(vendor_names) :
          Contains(Lower(subject), Lower(vendor_names[k]))

\* the loop over receipt_keywords
IsReceipt(subject) ==
    \E k \in 1..Len(receipt_keywords) :
        Contains(Lower(subject), Lower(receipt_keywords[k]))

\* re.search(r'@([^>]+)', from_addr)
DomainPattern == <<Lit("@"), Grp(1, <<Plus(NotSet({">"}))>>)>>

\* the last table entry, in table order, whose key is contained in domain
DomainLookupLast(domain, k) ==
    LET hits == {j \in k..Len(domain_to_vendor) : Contains(domain, domain_to_vendor[j][1])}
    IN  IF hits = {} THEN None
        ELSE Str(domain_to_vendor[CHOOSE j \in hits : \A h \in hits : h <= j][2])

\* the first table entry, in table order, whose key is contained in domain
RECURSIVE DomainLookup(_, _)
DomainLookup(domain, k) ==
    IF k > Len(domain_to_vendor) THEN None
    ELSE IF Contains(domain, domain_to_vendor[k][1]) THEN Str(domain_to_vendor[k][2])
         ELSE DomainLookup(domain, k + 1)

\* the first vendor name, in list order, contained in the subject
RECURSIVE SubjectLookup(_, _)
SubjectLookup(subject, k) ==
    IF k > Len(vendor_names) THEN None
    ELSE IF Contains(Lower(subject), Lower(vendor_names[k])) THEN Str(vendor_names[k])
         ELSE SubjectLookup(subject, k + 1)

\* an identifier that consults the subject before the sender's domain
_identify_vendor_subject_first(email) ==
    IF ~IsReceipt(email.subject) THEN None
    ELSE LET domain_match == ReSearch(DomainPattern, email.from)
             by_domain == IF domain_match.ok
                          THEN DomainLookup(Lower(Group(domain_match, email.from, 1)), 1)
                          ELSE None
             by_subject == SubjectLookup(email.subject, 1)
         IN  IF by_subject # None THEN by_subject
             ELSE by_domain

_identify_vendor(email) ==
    IF ~IsReceipt(email.subject) THEN None
    ELSE LET domain_match == ReSearch(DomainPattern, email.from)
             by_domain == IF domain_match.ok
                          THEN DomainLookup(Lower(Group(domain_match, email.from, 1)), 1)
                          ELSE None
         IN  IF by_domain # None THEN by_domain
             ELSE SubjectLookup(email.subject, 1)

(***************************************************************************)
(* ReceiptParser._parse_vendor_specific                                    *)
(***************************************************************************)
\* float(value.replace(',', '')) of a monetary field, the text of any other
\* field; ok is FALSE when float raises ValueError
Convert(field, value) ==
    IF field \in MoneyFields
    THEN LET f == ToFloat(RemoveCh(value, ","))
         IN  [ok |-> f.ok, v |-> Float(f.v)]
    ELSE [ok |-> TRUE, v |-> Str(value)]

\* a loop that takes the amount of an "items" entry for the subtotal
RECURSIVE VendorLoopItemsAsSubtotal(_, _, _, _)
VendorLoopItemsAsSubtotal(entries, k, body, receipt_data) ==
    IF k > Len(entries) THEN receipt_data
    ELSE LET field == IF entries[k][1] = "items" THEN "subtotal" ELSE entries[k][1]
             pattern == entries[k][2]
         IN  IF field = "vendor"
             THEN VendorLoopItemsAsSubtotal(entries, k + 1, body,
                                            [receipt_data EXCEPT ![field] = Str(pattern)])
             ELSE LET match == ReSearchI(pattern, body)
                      conv == Convert(field, Strip(Group(match, body, 1)))
                  IN  IF match.ok /\ conv.ok
                      THEN VendorLoopItemsAsSubtotal(entries, k + 1, body,
                                                     [receipt_data EXCEPT ![field] = conv.v])
                      ELSE VendorLoopItemsAsSubtotal(entries, k + 1, body, receipt_data)

RECURSIVE VendorLoop(_, _, _, _)
VendorLoop(entries, k, body, receipt_data) ==
    IF k > Len(entries) THEN receipt_data
    ELSE LET field == entries[k][1]
             pattern == entries[k][2]
         IN  IF field = "vendor"
             THEN VendorLoop(entries, k + 1, body,
                             [receipt_data EXCEPT ![field] = Str(pattern)])
             ELSE LET match == ReSearchI(pattern, body)
                      conv == Convert(field, Strip(Group(match, body, 1)))
                  IN  IF match.ok /\ conv.ok
                      THEN VendorLoop(entries, k + 1, body,
                                      [receipt_data EXCEPT ![field] = conv.v])
                      ELSE VendorLoop(entries, k + 1, body, receipt_data)

_parse_vendor_specific(body, vendor, receipt_data) ==
    LET entries == IF vendor \in DOMAIN vendor_patterns
                   THEN vendor_patterns[vendor] ELSE <<>>
    IN  VendorLoop(entries, 1, body, receipt_data)

\* the fields the loop of lines 230-246 assigns, in order: line 232 for the
\* vendor entry, line 246 for an entry that matches and converts
RECURSIVE VendorWrites(_, _, _)
VendorWrites(entries, k, body) ==
    IF k > Len(entries) THEN <<>>
    ELSE LET field == entries[k][1]
             match == ReSearchI(entries[k][2], body)
         IN  (IF field = "vendor" THEN <<field>>
              ELSE IF match.ok /\ Convert(field, Strip(Group(match, body, 1))).ok
              THEN <<field>>
              ELSE <<>>) \o VendorWrites(entries, k + 1, body)

(***************************************************************************)
(* ReceiptParser._extract_data_with_patterns                               *)
(***************************************************************************)
\* a guard that tests truthiness, `if receipt_data.get(field)`, and so takes
\* an extracted 0.0 for a missing value
AlreadyExtractedTruthy(receipt_data, field) == Truthy(receipt_data[field])

\* a cascade that skips no field
AlreadyExtractedNever(receipt_data, field) == FALSE

\* `receipt_data.get(field) is not None`
AlreadyExtracted(receipt_data, field) == receipt_data[field] # None

\* an inner loop without the break: every pattern is tried and the last one
\* that matches and converts leaves its value
RECURSIVE PatternLoopNoBreak(_, _, _, _)
PatternLoopNoBreak(field, pats, k, body) ==
    IF k > Len(pats) THEN None
    ELSE LET later == PatternLoopNoBreak(field, pats, k + 1, body)
             match == ReSearchI(pats[k], body)
             conv == Convert(field, Strip(Group(match, body, 1)))
         IN  IF later # None THEN later
             ELSE IF match.ok /\ conv.ok THEN conv.v
             ELSE None

\* the inner loop: the value of the first pattern, in list order, that
\* matches and converts, after which the loop breaks; None when there is none
RECURSIVE PatternLoop(_, _, _, _)
PatternLoop(field, pats, k, body) ==
    IF k > Len(pats) THEN None
    ELSE LET match == ReSearchI(pats[k], body)
             conv == Convert(field, Strip(Group(match, body, 1)))
         IN  IF match.ok /\ conv.ok THEN conv.v
             ELSE PatternLoop(field, pats, k + 1, body)

\* the outer loop over self.patterns
RECURSIVE FieldLoop(_, _, _)
FieldLoop(k, body, receipt_data) ==
    IF k > Len(PatternFields) THEN receipt_data
    ELSE LET field == PatternFields[k]
         IN  IF AlreadyExtracted(receipt_data, field)
             THEN FieldLoop(k + 1, body, receipt_data)
             ELSE LET value == PatternLoop(field, patterns[field], 1, body)
                  IN  FieldLoop(k + 1, body,
                                IF value = None THEN receipt_data
                                ELSE [receipt_data EXCEPT ![field] = value])

\* a cascade that only runs for a record that has a vendor
GenericCascadeNeedsVendor(body, receipt_data) ==
    IF receipt_data.vendor = None THEN receipt_data
    ELSE FieldLoop(1, body, receipt_data)

\* lines 252-270
GenericCascade(body, receipt_data) == FieldLoop(1, body, receipt_data)

\* the fields the loop of lines 252-270 assigns at line 269, in order
RECURSIVE GenericWrites(_, _, _)
GenericWrites(k, body, receipt_data) ==
    IF k > Len(PatternFields) THEN <<>>
    ELSE LET field == PatternFields[k]
         IN  (IF ~AlreadyExtracted(receipt_data, field)
                 /\ PatternLoop(field, patterns[field], 1, body) # None
              THEN <<field>> ELSE <<>>) \o GenericWrites(k + 1, body, receipt_data)

(***************************************************************************)
(* dateutil.parser.parse and strftime('%Y-%m-%d'), for the date shapes the *)
(* patterns capture with a four-digit year                                 *)
(***************************************************************************)
MonthNames == <<"january", "february", "march", "april", "may", "june", "july",
                "august", "september", "october", "november", "december">>

\* a month by its full name or its three-letter abbreviation, 0 when unknown
MonthOf(name) ==
    LET low == Lower(name)
        hits == {m \in 1..12 : low = MonthNames[m] \/ low = SubSeq(MonthNames[m], 1, 3)}
    IN  IF hits = {} THEN 0 ELSE CHOOSE m \in hits : TRUE

IsLeap(y) == (y % 4 = 0 /\ y % 100 # 0) \/ y % 400 = 0
DaysIn(y, m) == IF m = 2 THEN (IF IsLeap(y) THEN 29 ELSE 28)
                ELSE IF m \in {4, 6, 9, 11} THEN 30 ELSE 31

ValidDate(y, m, d) == y >= 1 /\ m \in 1..12 /\ d >= 1 /\ d <= DaysIn(y, m)

D1to2 == Rep(<<Digit>>, 1, 2)
D4 == Rep(<<Digit>>, 4, 4)
Sep == Set({"/", "-"})
ShapeMonthDayYear == <<Grp(1, <<Plus(Alpha)>>), Opt(Lit(".")), Plus(Ws), Grp(2, <<D1to2>>),
                       Opt(Lit(",")), Plus(Ws), Grp(3, <<D4>>), Eos>>
ShapeDayMonthYear == <<Grp(2, <<D1to2>>), Plus(Ws), Grp(1, <<Plus(Alpha)>>), Opt(Lit(".")),
                       Plus(Ws), Grp(3, <<D4>>), Eos>>
ShapeYearMonthDay == <<Grp(3, <<D4>>), Plus(Ws), Grp(1, <<Plus(Alpha)>>), Opt(Lit(".")),
                       Plus(Ws), Grp(2, <<D1to2>>), Eos>>
ShapeNumericMDY == <<Grp(1, <<D1to2>>), Sep, Grp(2, <<D1to2>>), Sep, Grp(3, <<D4>>), Eos>>
ShapeNumericYMD == <<Grp(3, <<D4>>), Sep, Grp(1, <<D1to2>>), Sep, Grp(2, <<D1to2>>), Eos>>

DateError == [ok |-> FALSE, y |-> 0, m |-> 0, d |-> 0]
Checked(y, m, d) == IF ValidDate(y, m, d) THEN [ok |-> TRUE, y |-> y, m |-> m, d |-> d]
                    ELSE DateError

\* the fields of a date of one shape: month by name or by number
NamedDate(raw, m) == Checked(ToInt(Group(m, raw, 3)), MonthOf(Group(m, raw, 1)),
                             ToInt(Group(m, raw, 2)))
NumericDate(raw, m) ==
    LET a == ToInt(Group(m, raw, 1))
        b == ToInt(Group(m, raw, 2))
        y == ToInt(Group(m, raw, 3))
    IN  \* month first, unless the first number can only be a day
        IF a > 12 /\ b <= 12 THEN Checked(y, b, a) ELSE Checked(y, a, b)

\* the parsed date, or ok = FALSE where dateutil raises
DateutilParse(raw) ==
    LET mdy == MatchHere(raw, ShapeMonthDayYear, 1, NoGroups, FALSE)
        dmy == MatchHere(raw, ShapeDayMonthYear, 1, NoGroups, FALSE)
        ymd == MatchHere(raw, ShapeYearMonthDay, 1, NoGroups, FALSE)
        nmdy == MatchHere(raw, ShapeNumericMDY, 1, NoGroups, FALSE)
        nymd == MatchHere(raw, ShapeNumericYMD, 1, NoGroups, FALSE)
    IN  IF mdy.ok THEN NamedDate(raw, mdy)
        ELSE IF dmy.ok THEN NamedDate(raw, dmy)
        ELSE IF ymd.ok THEN NamedDate(raw, ymd)
        ELSE IF nmdy.ok THEN NumericDate(raw, nmdy)
        ELSE IF nymd.ok THEN Checked(ToInt(Group(nymd, raw, 3)), ToInt(Group(nymd, raw, 1)),
                                     ToInt(Group(nymd, raw, 2)))
        ELSE DateError

\* a number in decimal, left-padded with zeros to the width w
RECURSIVE Digits(_, _)
Digits(n, w) ==
    IF w = 0 THEN ""
    ELSE Digits(n \div 10, w - 1) \o SubSeq(DigitChars, (n % 10) + 1, (n % 10) + 1)

\* a day-first format, strftime('%d-%m-%Y')
StrftimeDayFirst(p) == Digits(p.d, 2) \o "-" \o Digits(p.m, 2) \o "-" \o Digits(p.y, 4)

\* parsed_date.strftime('%Y-%m-%d')
Strftime(p) == Digits(p.y, 4) \o "-" \o Digits(p.m, 2) \o "-" \o Digits(p.d, 2)

\* a normaliser whose handler resets the date, `except: receipt_data['date'] = None`
DateNormalizerResets(receipt_data) ==
    IF Truthy(receipt_data.date) /\ receipt_data.date.k = "str"
    THEN LET parsed_date == DateutilParse(receipt_data.date.s)
         IN  IF parsed_date.ok
             THEN [receipt_data EXCEPT !.date = Str(Strftime(parsed_date))]
             ELSE [receipt_data EXCEPT !.date = None]
    ELSE receipt_data

\* lines 272-278: the date is rewritten when it parses and kept otherwise
DateNormalizer(receipt_data) ==
    IF Truthy(receipt_data.date) /\ receipt_data.date.k = "str"
    THEN LET parsed_date == DateutilParse(receipt_data.date.s)
         IN  IF parsed_date.ok
             THEN [receipt_data EXCEPT !.date = Str(Strftime(parsed_date))]
             ELSE receipt_data
    ELSE receipt_data

\* the assignment of line 276, made when the date is parsed
DateWrites(receipt_data) ==
    IF Truthy(receipt_data.date) /\ receipt_data.date.k = "str"
       /\ DateutilParse(receipt_data.date.s).ok
    THEN <<"date">> ELSE <<>>

_extract_data_with_patterns(body, receipt_data) ==
    DateNormalizer(GenericCascade(body, receipt_data))

(***************************************************************************)
(* ReceiptParser._extract_items                                            *)
(***************************************************************************)
\* ([\w\s\-&\']+) and (\d+\.\d{2})
ItemName(g) == Grp(g, <<Plus(Set(WordSet \cup SpaceSet \cup {"-", "&", "'"}))>>)
ItemPrice(g) == Grp(g, <<Plus(Digit), Lit("."), Rep(<<Digit>>, 2, 2)>>)

item_patterns ==
    << <<Grp(1, <<Plus(Digit)>>), Plus(Ws), Lit("x"), Plus(Ws), ItemName(2), Plus(Ws),
         Opt(Lit("$")), ItemPrice(3)>>,
       <<ItemName(1), Plus(Ws), Opt(Lit("$")), ItemPrice(2), Plus(Ws),
         Words(<<"ea", "each">>)>>,
       <<ItemName(1), Plus(Ws), Opt(Lit("$")), ItemPrice(2)>> >>

\* len(match): the number of groups of the pattern
GroupCount(p) == Cardinality({j \in 1..Len(p) : p[j].t = "grp"})

\* an item whose total is the unit price whatever the quantity
ItemOfUnitTotal(p, m, body) ==
    IF GroupCount(p) = 3
    THEN LET price == ToFloat(Group(m, body, 3))
         IN  IF price.ok
             THEN <<[name |-> Strip(Group(m, body, 2)),
                     quantity |-> ToInt(Group(m, body, 1)),
                     price |-> price.v, total |-> price.v]>>
             ELSE <<>>
    ELSE IF GroupCount(p) = 2
    THEN LET price == ToFloat(Group(m, body, 2))
         IN  IF price.ok
             THEN <<[name |-> Strip(Group(m, body, 1)), quantity |-> 1,
                     price |-> price.v, total |-> price.v]>>
             ELSE <<>>
    ELSE <<>>

\* the item appended for one match, or <<>> when a conversion raises
ItemOf(p, m, body) ==
    IF GroupCount(p) = 3
    THEN LET price == ToFloat(Group(m, body, 3))
             quantity == ToInt(Group(m, body, 1))
         IN  IF price.ok
             THEN <<[name |-> Strip(Group(m, body, 2)), quantity |-> quantity,
                     price |-> price.v, total |-> quantity * price.v]>>
             ELSE <<>>
    ELSE IF GroupCount(p) = 2
    THEN LET price == ToFloat(Group(m, body, 2))
         IN  IF price.ok
             THEN <<[name |-> Strip(Group(m, body, 1)), quantity |-> 1,
                     price |-> price.v, total |-> price.v]>>
             ELSE <<>>
    ELSE <<>>

RECURSIVE ItemsOfMatches(_, _, _)
ItemsOfMatches(p, matches, body) ==
    IF matches = <<>> THEN <<>>
    ELSE ItemOf(p, Head(matches), body) \o ItemsOfMatches(p, Tail(matches), body)

\* a loop that stops at the first shape with a match
RECURSIVE ItemLoopFirstShape(_, _)
ItemLoopFirstShape(k, body) ==
    IF k > Len(item_patterns) THEN <<>>
    ELSE IF ReFindAll(item_patterns[k], body) # <<>>
    THEN ItemsOfMatches(item_patterns[k], ReFindAll(item_patterns[k], body), body)
    ELSE ItemLoopFirstShape(k + 1, body)

RECURSIVE ItemLoop(_, _)
ItemLoop(k, body) ==
    IF k > Len(item_patterns) THEN <<>>
    ELSE ItemsOfMatches(item_patterns[k], ReFindAll(item_patterns[k], body), body)
         \o ItemLoop(k + 1, body)

_extract_items(body) == ItemLoop(1, body)

(***************************************************************************)
(* ReceiptParser._calculate_confidence.  A score is an exact number of     *)
(* ConfidenceScale-ths; the weights 0.7 and 0.3 are in tenths.  On each of *)
(* the 24 pairs of counts the float Python computes compares to 0.0, 0.3   *)
(* and 1.0 as the exact value does.                                        *)
(***************************************************************************)
ConfidenceScale == 10 * 3 * 5
required_fields == <<"vendor", "date", "total">>
optional_fields == <<"subtotal", "tax", "shipping", "discount", "order_number">>
required_weight == 7
optional_weight == 3

\* a count of the truthy fields, `if receipt_data.get(field)`, which leaves
\* out an amount of 0.0
RECURSIVE CountPopulatedTruthy(_, _)
CountPopulatedTruthy(fields, receipt_data) ==
    IF fields = <<>> THEN 0
    ELSE (IF Truthy(receipt_data[Head(fields)]) THEN 1 ELSE 0)
         + CountPopulatedTruthy(Tail(fields), receipt_data)

\* sum(1 for field in fields if receipt_data.get(field) is not None)
RECURSIVE CountPopulated(_, _)
CountPopulated(fields, receipt_data) ==
    IF fields = <<>> THEN 0
    ELSE (IF receipt_data[Head(fields)] # None THEN 1 ELSE 0)
         + CountPopulated(Tail(fields), receipt_data)

\* a score that also counts a non-empty items list among the optional fields
_calculate_confidence_items(receipt_data) ==
    LET required_count == CountPopulated(required_fields, receipt_data)
        optional_count == CountPopulated(optional_fields, receipt_data)
                          + (IF Truthy(receipt_data.items) THEN 1 ELSE 0)
        required_score == (required_count * required_weight * ConfidenceScale)
                              \div (Len(required_fields) * 10)
        optional_score == (optional_count * optional_weight * ConfidenceScale)
                              \div ((Len(optional_fields) + 1) * 10)
    IN  required_score + optional_score

_calculate_confidence(receipt_data) ==
    LET required_count == CountPopulated(required_fields, receipt_data)
        optional_count == CountPopulated(optional_fields, receipt_data)
        required_score == (required_count * required_weight * ConfidenceScale)
                              \div (Len(required_fields) * 10)
        optional_score == (optional_count * optional_weight * ConfidenceScale)
                              \div (Len(optional_fields) * 10)
    IN  required_score + optional_score

(***************************************************************************)
(* Messages                                                                *)
(***************************************************************************)
MaxFragments == 2

Subjects == {"Hello",
             "Your Amazon.com order confirmation",
             "Receipt from Joe's Cafe",
             "Walmart deals for you",
             "Your Uber Eats receipt",
             "Walmart and Amazon purchase"}

Senders == {"orders@amazon.com",
            "joe@example.com",
            "Uber Receipts <noreply@UBER.com>",
            "unknown sender",
            "help@walmart.com"}

\* lines of receipt text from which bodies are put together
Fragments == <<"Total: $7.50",
               "Order Total: $0.00",
               "Total $5.00",
               "Subtotal: $30.00",
               "Date: January 5, 2024",
               "Date: Smarch 5, 2024",
               "Order Date: 13/45/2024",
               "From: Joe's Cafe",
               "2 x Widget $5.00">>

RECURSIVE BodiesOf(_)
BodiesOf(n) ==
    IF n = 0 THEN {""}
    ELSE LET shorter == BodiesOf(n - 1)
         IN  shorter \cup {Fragments[k] : k \in 1..Len(Fragments)}
                     \cup {b \o "\n" \o Fragments[k] :
                             b \in shorter \ {""}, k \in 1..Len(Fragments)}

FullReceipt == "Order #: 112-7\nDate: Jan 5, 2024\nSubtotal: $1,030.00\nShipping: $4.99\n"
               \o "Tax: $2.10\nDiscount: $1.00\nGrand Total: $1,036.09"
HtmlReceipt == "<html><body><p>Order Total: $42.10</p><script>var total = 1;</script>"
               \o "<p>Date:  5 January 2024</p></body></html>"

Bodies == BodiesOf(MaxFragments)
          \cup {"nothing relevant", FullReceipt, HtmlReceipt, "0 x Widget $5.00",
                "Cake $4.00\n2 x Tea $3.00 each", "<BODY>Total: $7.50</BODY>"}
ShortBodies == BodiesOf(MaxFragments - 1) \cup {"nothing relevant", FullReceipt, HtmlReceipt}

\* bodies combined with every sender and subject
GateBodies == {"nothing relevant", "Amount: $5.00\nTotal: $7.50", "Order Date: 13/45/2024"}

\* an email_data dictionary.  null holds the keys whose value is None and
\* absent the keys the dictionary does not have; both kinds of key hold ""
\* in the record
Email(subject, from, body) ==
    [subject |-> subject, from |-> from, body |-> body, date |-> "Mon, 8 Jan 2024",
     null |-> {}, absent |-> {}]

WithNull(email, keys) ==
    [[key \in DOMAIN email |-> IF key \in keys THEN "" ELSE email[key]]
        EXCEPT !.null = keys]
Without(email, keys) ==
    [[key \in DOMAIN email |-> IF key \in keys THEN "" ELSE email[key]]
        EXCEPT !.absent = keys]

\* email_data.get(key, '')
Get(email, key) ==
    IF key \in email.absent THEN Str("")
    ELSE IF key \in email.null THEN None
    ELSE Str(email[key])

\* senders whose domain holds two keys of the domain table, the later one
\* first, and whose first "@" has no domain after it
DomainSenders == {"deals@walmart.com.amazon.com", "<joe@> orders@amazon.com"}

\* a vendor with a vendor-specific set with every body, an unknown vendor
\* with the shorter bodies, every subject and sender with a few bodies, and
\* the senders with unusual domains
Messages ==
    {Email("Your Amazon.com order confirmation", "orders@amazon.com", b) : b \in Bodies}
    \cup {Email("Receipt from Joe's Cafe", "joe@example.com", b) : b \in ShortBodies}
    \cup {Email(su, fr, b) : su \in Subjects, fr \in Senders, b \in GateBodies}
    \cup {Email("Receipt from Joe's Cafe", fr, "nothing relevant") : fr \in DomainSenders}

\* dictionaries with a value of None or without some keys
OddMessages ==
    LET order == Email("Your Amazon.com order confirmation", "orders@amazon.com",
                       "Total: $7.50")
        hello == Email("Hello", "joe@example.com", "Total: $7.50")
    IN  {WithNull(order, {"body"}), WithNull(order, {"subject"}), WithNull(order, {"from"}),
         WithNull(hello, {"from"}), WithNull(order, {"date"}),
         Without(order, {"body"}), Without(order, {"subject", "from"}),
         Without(order, {"subject", "from", "body", "date"})}

(***************************************************************************)
(* ReceiptParser.parse, stage by stage                                     *)
(***************************************************************************)
\* one call of parse: the stage reached, the argument, the locals body,
\* receipt_data and vendor, the key of the vendor-specific set that ran, and
\* the record as the generic cascade received it, and the date as the
\* cascades left it
VARIABLES pc, email_data, body, receipt_data, vendor, vs_key, generic_entry, raw_date,
          writes
\* the parser object, with its two tables as attributes, and the message as
\* the caller handed it over
VARIABLES self, given
\* what became of the conversion of a body with markup in this call: "none"
\* when there was none, "ok" when it gave text, "failed" when it raised
VARIABLES converted
\* one run of the scraper: the step reached, the two collaborators' flags,
\* config["output"]["save_receipts"], the fetched emails, the loop index,
\* the accepted receipts, the receipt files written, the rows handed to
\* append_values and the value run returns
VARIABLES run_pc, email_authenticated, sheets_authenticated, save_receipts, emails, i,
          receipts, saved, sent_rows, result
\* the spreadsheet: the header row create_spreadsheet wrote (<<>> before), and
\* the receipts handed to the two add functions so far, in order
VARIABLES header, handed
\* what the scraper did so far, one entry per step taken: the step and how
\* it ended
VARIABLES steps
\* the email authenticator: config["email"]["auth_type"], its service or
\* connection, and its authenticate and disconnect calls so far, each
\* authenticate with what it answered; and the last data operation called
\* on a collaborator
VARIABLES auth_type, link, auth_calls, last_op
\* several calls of parse on one parser: for each call its stage, its
\* argument and the record it returned, and for each call's slot the locals
\* body, receipt_data and vendor
VARIABLES frames, locals

collab_vars == <<auth_type, link, auth_calls, last_op>>
local_vars == <<pc, email_data, body, receipt_data, vendor, vs_key, generic_entry,
                raw_date, writes, given, converted>>
parse_vars == <<local_vars, self>>
run_vars == <<run_pc, email_authenticated, sheets_authenticated, save_receipts, emails, i,
              receipts, saved, sent_rows, result, header, handed, steps, collab_vars>>
call_vars == <<frames, locals>>
vars == <<parse_vars, run_vars, call_vars>>

ScoredFields == {"vendor", "date", "total", "subtotal", "tax", "shipping", "discount",
                 "order_number"}

\* lines 134-149
InitialRecord(email) ==
    [vendor |-> None, date |-> None, total |-> None, subtotal |-> None, tax |-> None,
     shipping |-> None, discount |-> None, order_number |-> None,
     items |-> List(<<>>), currency |-> Str("USD"),
     email_subject |-> Get(email, "subject"), email_from |-> Get(email, "from"),
     email_date |-> Get(email, "date"), confidence |-> Float(0)]

NoEmail == Email("", "", "")

\* __init__, lines 19-116: the attributes of a new parser
Instance == [patterns |-> patterns, vendor_patterns |-> vendor_patterns]

\* a loop that removes the entries it has used from the set, patterns.pop
EntriesAfterPop(entries) == <<>>

\* a loop that leaves only the vendor entry in the set
EntriesAfterFirstUse(entries) == SubSeq(entries, 1, 1)

\* the vendor's set after the loop of lines 230-246, which reads
\* patterns.items() and patterns[field] and assigns to neither
EntriesAfterLoop(entries) == entries

\* the assignments `receipt_data[field] = ...` a stage makes, for the log
WritesBy(stage, fields) == [k \in 1..Len(fields) |-> [by |-> stage, field |-> fields[k]]]

ParseIdle ==
    /\ pc = "idle"
    /\ email_data = NoEmail
    /\ body = ""
    /\ receipt_data = InitialRecord(NoEmail)
    /\ vendor = None
    /\ vs_key = ""
    /\ generic_entry = InitialRecord(NoEmail)
    /\ raw_date = None
    /\ writes = <<>>
    /\ self = Instance
    /\ given = NoEmail
    /\ converted = "none"

\* lines 128-149: the body is normalised and the record initialised
ParseCall ==
    /\ pc = "idle"
    /\ \E m \in Messages \cup OddMessages, parsed \in BOOLEAN :
          /\ parsed \/ HasMarkup(m.body)
          /\ email_data' = m
          /\ given' = m
          /\ IF Get(m, "body") = None
             THEN \* line 130: None has no lower()
                  /\ pc' = "raised"
                  /\ UNCHANGED <<body, receipt_data, converted>>
             ELSE /\ pc' = "identify"
                  /\ body' = IF HasMarkup(Get(m, "body").s)
                             THEN _extract_text_from_html(Get(m, "body").s, parsed)
                             ELSE Get(m, "body").s
                  /\ converted' = IF ~HasMarkup(Get(m, "body").s) THEN "none"
                                  ELSE IF parsed THEN "ok" ELSE "failed"
                  /\ receipt_data' = InitialRecord(m)
    /\ writes' = <<>>
    /\ UNCHANGED <<vendor, vs_key, generic_entry, raw_date, self>>
    /\ UNCHANGED <<run_vars, call_vars>>

\* _identify_vendor raises: subject.lower() of None at line 182, or
\* re.search in None at line 190 once the subject has passed the gate
IdentifyRaises(email) ==
    \/ Get(email, "subject") = None
    \/ IsReceipt(Get(email, "subject").s) /\ Get(email, "from") = None

\* `vendor.lower() in self.vendor_patterns`
HasVendorPatterns(v) == Lower(v.s) \in DOMAIN vendor_patterns

\* an order of stages with the date step before the generic cascade
NextStageDateFirst(stage, l) ==
    IF stage = "identify"
    THEN (IF Truthy(l.vendor) /\ HasVendorPatterns(l.vendor) THEN "vendor_specific"
          ELSE "date")
    ELSE IF stage = "vendor_specific" THEN "date"
    ELSE IF stage = "date" THEN "generic"
    ELSE IF stage = "generic" THEN "items"
    ELSE IF stage = "items" THEN "confidence"
    ELSE "done"

\* lines 151-168: the stage that follows a stage, given the locals the
\* stage left
NextStage(stage, l) ==
    IF stage = "identify"
    THEN (IF Truthy(l.vendor) /\ HasVendorPatterns(l.vendor) THEN "vendor_specific"
          ELSE "generic")
    ELSE IF stage = "vendor_specific" THEN "generic"
    ELSE IF stage = "generic" THEN "date"
    ELSE IF stage = "date" THEN "items"
    ELSE IF stage = "items" THEN "confidence"
    ELSE "done"

\* lines 152-154
IdentifyVendor ==
    /\ pc = "identify"
    /\ IF IdentifyRaises(email_data)
       THEN /\ pc' = "raised"
            /\ UNCHANGED <<vendor, receipt_data, writes>>
       ELSE /\ vendor' = _identify_vendor(email_data)
            /\ receipt_data' = IF Truthy(vendor')
                               THEN [receipt_data EXCEPT !.vendor = vendor']
                               ELSE receipt_data
            /\ pc' = NextStage("identify", [vendor |-> vendor'])
            /\ writes' = writes \o WritesBy("identify",
                                            IF Truthy(vendor') THEN <<"vendor">> ELSE <<>>)
    /\ UNCHANGED <<email_data, body, converted, vs_key, generic_entry, raw_date, self,
                   given>>
    /\ UNCHANGED <<run_vars, call_vars>>

\* lines 156-157, with line 228: `patterns` is the vendor's set itself, not
\* a copy of it
VendorSpecific ==
    /\ pc = "vendor_specific"
    /\ \E patterns_ \in {self.vendor_patterns[Lower(vendor.s)]} :
          /\ receipt_data' = VendorLoop(patterns_, 1, body, receipt_data)
          /\ writes' = writes \o WritesBy("vendor_specific", VendorWrites(patterns_, 1, body))
          /\ self' = [self EXCEPT !.vendor_patterns[Lower(vendor.s)] =
                                      EntriesAfterLoop(patterns_)]
    /\ vs_key' = Lower(vendor.s)
    /\ pc' = NextStage("vendor_specific", [vendor |-> vendor])
    /\ UNCHANGED <<email_data, body, converted, vendor, generic_entry, raw_date, given>>
    /\ UNCHANGED <<run_vars, call_vars>>

\* line 160, the loop of lines 252-270
Generic ==
    /\ pc = "generic"
    /\ receipt_data' = GenericCascade(body, receipt_data)
    /\ generic_entry' = receipt_data
    /\ writes' = writes \o WritesBy("generic", GenericWrites(1, body, receipt_data))
    /\ pc' = NextStage("generic", [vendor |-> vendor])
    /\ UNCHANGED <<email_data, body, converted, vendor, vs_key, raw_date, self, given>>
    /\ UNCHANGED <<run_vars, call_vars>>

\* line 160, lines 272-280
NormalizeDate ==
    /\ pc = "date"
    /\ receipt_data' = DateNormalizer(receipt_data)
    /\ raw_date' = receipt_data.date
    /\ writes' = writes \o WritesBy("date", DateWrites(receipt_data))
    /\ pc' = NextStage("date", [vendor |-> vendor])
    /\ UNCHANGED <<email_data, body, converted, vendor, vs_key, generic_entry, self,
                   given>>
    /\ UNCHANGED <<run_vars, call_vars>>

\* line 163
ExtractItems ==
    /\ pc = "items"
    /\ receipt_data' = [receipt_data EXCEPT !.items = List(_extract_items(body))]
    /\ writes' = writes \o WritesBy("items", <<"items">>)
    /\ pc' = NextStage("items", [vendor |-> vendor])
    /\ UNCHANGED <<email_data, body, converted, vendor, vs_key, generic_entry, raw_date,
                   self, given>>
    /\ UNCHANGED <<run_vars, call_vars>>

\* line 166
Score ==
    /\ pc = "confidence"
    /\ receipt_data' = [receipt_data EXCEPT
                          !.confidence = Float(_calculate_confidence(receipt_data))]
    /\ writes' = writes \o WritesBy("confidence", <<"confidence">>)
    /\ pc' = NextStage("confidence", [vendor |-> vendor])
    /\ UNCHANGED <<email_data, body, converted, vendor, vs_key, generic_entry, raw_date,
                   self, given>>
    /\ UNCHANGED <<run_vars, call_vars>>

\* line 168, or an exception on its way out: the record, or the exception,
\* is handed to the caller and the locals are gone
Return ==
    /\ pc \in {"done", "raised"}
    /\ pc' = "idle"
    /\ email_data' = NoEmail
    /\ body' = ""
    /\ receipt_data' = InitialRecord(NoEmail)
    /\ vendor' = None
    /\ vs_key' = ""
    /\ generic_entry' = InitialRecord(NoEmail)
    /\ raw_date' = None
    /\ writes' = <<>>
    /\ given' = NoEmail
    /\ converted' = "none"
    /\ UNCHANGED self
    /\ UNCHANGED <<run_vars, call_vars>>

\* the record parse returns for a message, all stages in order
Parse(email, parsed) ==
    LET text == IF HasMarkup(email.body) THEN _extract_text_from_html(email.body, parsed)
                ELSE email.body
        r0 == InitialRecord(email)
        v == _identify_vendor(email)
        r1 == IF Truthy(v) THEN [r0 EXCEPT !.vendor = v] ELSE r0
        r2 == IF Truthy(v) /\ HasVendorPatterns(v)
              THEN _parse_vendor_specific(text, Lower(v.s), r1) ELSE r1
        r3 == _extract_data_with_patterns(text, r2)
        r4 == [r3 EXCEPT !.items = List(_extract_items(text))]
    IN  [r4 EXCEPT !.confidence = Float(_calculate_confidence(r4))]

(***************************************************************************)
(* EmailReceiptScraper: run, fetch_and_process_emails, _save_receipt_data, *)
(* add_receipts_to_spreadsheet, and                                        *)
(* GoogleSheetsIntegration.add_multiple_receipts                           *)
(***************************************************************************)
MaxEmails == 2

\* the literal 0.3 of `receipt_data["confidence"] >= 0.3`
Threshold == (3 * ConfidenceScale) \div 10

\* messages the mailbox can hold, with confidences on both sides of the
\* threshold, and one that parse raises on
Mailbox ==
    {WithNull(Email("Your Amazon.com order confirmation", "orders@amazon.com",
                    "Total: $7.50"), {"body"}),
     Email("Hello", "joe@example.com", "nothing relevant"),
     Email("Your Amazon.com order confirmation", "orders@amazon.com", "nothing relevant"),
     Email("Hello", "joe@example.com", "Subtotal: $30.00"),
     Email("Receipt from Joe's Cafe", "joe@example.com", "Total: $7.50\nDate: January 5, 2024"),
     Email("Your Amazon.com order confirmation", "orders@amazon.com", FullReceipt)}

RECURSIVE EmailLists(_)
EmailLists(n) ==
    IF n = 0 THEN {<<>>}
    ELSE LET shorter == EmailLists(n - 1)
         IN  shorter \cup {Append(l, m) : l \in shorter, m \in Mailbox}

\* a loop that keeps every parsed record
AcceptAll(receipt) == receipt.confidence.k = "float"

\* a test that keeps a record only above 0.3
AcceptAbove(receipt) == receipt.confidence.n > Threshold

\* `receipt_data["confidence"] >= 0.3`
Accept(receipt) == receipt.confidence.n >= Threshold

\* create_spreadsheet, lines 135-141: the values written to Receipts!A1:K1
HeaderRow == <<"Date", "Vendor", "Total", "Subtotal", "Tax", "Shipping", "Discount",
               "Order Number", "Currency", "Email Subject", "Confidence">>

\* receipt_data.get(key, default)
Cell(receipt, key, default) == IF key \in DOMAIN receipt THEN receipt[key] ELSE default

\* a row with the total and the subtotal in each other's place
RowOfSwapped(receipt) ==
    <<Cell(receipt, "date", Str("")), Cell(receipt, "vendor", Str("")),
      Cell(receipt, "subtotal", Str("")), Cell(receipt, "total", Str("")),
      Cell(receipt, "tax", Str("")), Cell(receipt, "shipping", Str("")),
      Cell(receipt, "discount", Str("")), Cell(receipt, "order_number", Str("")),
      Cell(receipt, "currency", Str("USD")), Cell(receipt, "email_subject", Str("")),
      Cell(receipt, "confidence", Float(0))>>

\* the row both add functions build for one receipt, lines 307-319 and
\* 348-360
RowOf(receipt) ==
    <<Cell(receipt, "date", Str("")), Cell(receipt, "vendor", Str("")),
      Cell(receipt, "total", Str("")), Cell(receipt, "subtotal", Str("")),
      Cell(receipt, "tax", Str("")), Cell(receipt, "shipping", Str("")),
      Cell(receipt, "discount", Str("")), Cell(receipt, "order_number", Str("")),
      Cell(receipt, "currency", Str("USD")), Cell(receipt, "email_subject", Str("")),
      Cell(receipt, "confidence", Float(0))>>

RowsOf(list) == [k \in 1..Len(list) |-> RowOf(list[k])]

\* a data operation of a collaborator, called when is_authenticated()
\* answers authenticated, with the guard left out
DataOperationUnguarded(op, authenticated) ==
    [op |-> op, authenticated |-> authenticated, raised |-> FALSE, remote |-> TRUE]

\* a data operation of a collaborator: `if not self.is_authenticated():
\* raise RuntimeError(...)` stands before the try statement that holds the
\* remote call (sheets_integration.py 112, 210, 244, 277, 303, 341;
\* email_auth.py 140, 351)
DataOperation(op, authenticated) ==
    [op |-> op, authenticated |-> authenticated, raised |-> ~authenticated,
     remote |-> authenticated]

NoOperation == [op |-> "none", authenticated |-> FALSE, raised |-> FALSE, remote |-> FALSE]

\* one entry of the log of steps
Step(step, note) == [step |-> step, note |-> note]

RunIdle ==
    /\ run_pc = "idle"
    /\ email_authenticated = FALSE
    /\ sheets_authenticated = FALSE
    /\ save_receipts = TRUE
    /\ emails = <<>>
    /\ i = 0
    /\ receipts = <<>>
    /\ saved = <<>>
    /\ sent_rows = <<>>
    /\ result = "none"
    /\ header = <<>>
    /\ handed = <<>>
    /\ steps = <<>>
    /\ auth_type = "gmail_api"
    /\ link = "none"
    /\ auth_calls = <<>>
    /\ last_op = NoOperation

RunInit ==
    /\ run_pc = "email_auth"
    /\ email_authenticated = FALSE
    /\ sheets_authenticated = FALSE
    /\ save_receipts \in BOOLEAN
    /\ emails = <<>>
    /\ i = 0
    /\ receipts = <<>>
    /\ saved = <<>>
    /\ sent_rows = <<>>
    /\ result = "none"
    /\ header = <<>>
    /\ handed = <<>>
    /\ steps = <<>>
    /\ auth_type = "gmail_api"
    /\ link = "none"
    /\ auth_calls = <<>>
    /\ last_op = NoOperation

\* run, lines 238-240: setup_email_auth makes the authenticator and calls
\* its authenticate(), which answers True or False; an auth_type that is
\* neither gmail_api nor imap answers False as well (lines 120-122)
SetupEmailAuth ==
    /\ run_pc = "email_auth"
    /\ \E ok \in BOOLEAN :
          /\ email_authenticated' = ok
          /\ link' = IF ok THEN "open" ELSE link
          /\ auth_calls' = Append(auth_calls, IF ok THEN "authenticate_true"
                                                ELSE "authenticate_false")
          /\ run_pc' = IF ok THEN "sheets" ELSE "returned"
          /\ result' = IF ok THEN result ELSE "False"
          /\ steps' = Append(steps, Step("email_auth", IF ok THEN "ok" ELSE "failed"))
    /\ UNCHANGED <<sheets_authenticated, save_receipts, emails, i, receipts, saved, sent_rows>>
    /\ UNCHANGED <<header, handed, auth_type, last_op>>
    /\ UNCHANGED <<parse_vars, call_vars>>

\* run, lines 244-246: setup_sheets_integration
\* has_id: config["sheets"]["spreadsheet_id"] is set; created: the
\* spreadsheet is created; updated: update_values writes its header row
SetupSheets ==
    /\ run_pc = "sheets"
    /\ \E ok \in BOOLEAN, has_id \in BOOLEAN, created \in BOOLEAN, updated \in BOOLEAN :
          /\ sheets_authenticated' = ok
          /\ header' = IF ok /\ ~has_id /\ created /\ updated THEN HeaderRow ELSE header
          /\ last_op' = IF ok /\ ~has_id THEN DataOperation("create_spreadsheet", ok)
                        ELSE last_op
          /\ run_pc' = IF ok /\ (has_id \/ created) THEN "fetch" ELSE "returned"
          /\ result' = IF ok /\ (has_id \/ created) THEN result ELSE "False"
          /\ steps' = Append(steps, Step("sheets", IF ok /\ (has_id \/ created)
                                                   THEN "ok" ELSE "failed"))
    /\ UNCHANGED <<email_authenticated, save_receipts, emails, i, receipts, saved, sent_rows,
                   handed>>
    /\ UNCHANGED <<auth_type, link, auth_calls>>
    /\ UNCHANGED <<parse_vars, call_vars>>

\* fetch_and_process_emails, lines 155-167: the guard and the fetch
FetchEmails ==
    /\ run_pc = "fetch"
    /\ IF ~email_authenticated
       THEN /\ emails' = <<>>
            /\ run_pc' = "fetched"
            /\ steps' = Append(steps, Step("fetch", "guard"))
            /\ UNCHANGED last_op
       ELSE /\ emails' \in EmailLists(MaxEmails)
            /\ run_pc' = "loop"
            /\ steps' = Append(steps, Step("fetch", "ok"))
            /\ last_op' = DataOperation("fetch_emails", email_authenticated)
    /\ i' = 1
    /\ receipts' = <<>>
    /\ UNCHANGED <<email_authenticated, sheets_authenticated, save_receipts, saved,
                   sent_rows, result>>
    /\ UNCHANGED <<header, handed, auth_type, link, auth_calls>>
    /\ UNCHANGED <<parse_vars, call_vars>>

\* parse raises on the message: lines 130, 182 and 190 of receipt_parser.py
ParseRaises(email) == Get(email, "body") = None \/ IdentifyRaises(email)

\* a loop inside the try statement: an exception ends it
IndexAfterExceptOutside(index, fetched) == Len(fetched) + 1

\* lines 184-185: the except clause is the last statement of the loop body,
\* so the loop goes on with the next email
IndexAfterExcept(index, fetched) == index + 1

\* fetch_and_process_emails, lines 169-185: one turn of the loop.  written
\* is FALSE when _save_receipt_data writes no file: makedirs raises, which
\* the except clause of the loop catches after the record has been appended,
\* or open or json.dump raises, which _save_receipt_data catches itself
ProcessEmail ==
    /\ run_pc = "loop"
    /\ i <= Len(emails)
    /\ IF ParseRaises(emails[i])
       THEN /\ UNCHANGED <<receipts, saved>>
            /\ i' = IndexAfterExcept(i, emails)
            /\ steps' = Append(steps, Step("email", "raised"))
       ELSE \E receipt \in {Parse(emails[i], TRUE)} :
               IF Accept(receipt)
               THEN /\ receipts' = Append(receipts, receipt)
                    /\ steps' = Append(steps, Step("email", "accepted"))
                    /\ \E written \in BOOLEAN, raised \in BOOLEAN :
                          /\ raised => ~written
                          /\ saved' = IF save_receipts /\ written
                                      THEN Append(saved, [index |-> i - 1, data |-> receipt])
                                      ELSE saved
                          /\ i' = IF save_receipts /\ raised
                                  THEN IndexAfterExcept(i, emails) ELSE i + 1
               ELSE /\ UNCHANGED <<receipts, saved>>
                    /\ i' = i + 1
                    /\ steps' = Append(steps, Step("email", "skipped"))
    /\ UNCHANGED <<run_pc, email_authenticated, sheets_authenticated, save_receipts, emails,
                   sent_rows, result>>
    /\ UNCHANGED <<header, handed, collab_vars>>
    /\ UNCHANGED <<parse_vars, call_vars>>

\* fetch_and_process_emails, line 188
ReturnReceipts ==
    /\ run_pc = "loop"
    /\ i > Len(emails)
    /\ run_pc' = "fetched"
    /\ UNCHANGED <<email_authenticated, sheets_authenticated, save_receipts, emails, i,
                   receipts, saved, sent_rows, result>>
    /\ UNCHANGED <<header, handed, steps, collab_vars>>
    /\ UNCHANGED <<parse_vars, call_vars>>

\* add_receipts_to_spreadsheet, lines 210-230, with add_multiple_receipts;
\* appended is FALSE when append_values fails
add_receipts_to_spreadsheet(list) ==
    IF ~sheets_authenticated
    THEN /\ result' = "False"
         /\ steps' = Append(steps, Step("write", "guard"))
         /\ UNCHANGED <<sent_rows, handed, last_op>>
    ELSE IF list = <<>>
         THEN /\ result' = "True"
              /\ steps' = Append(steps, Step("write", "nothing"))
              /\ UNCHANGED <<sent_rows, handed, last_op>>
         ELSE \E appended \in BOOLEAN :
                 /\ sent_rows' = sent_rows \o RowsOf(list)
                 /\ handed' = handed \o list
                 /\ last_op' = DataOperation("add_multiple_receipts", sheets_authenticated)
                 /\ result' = IF appended THEN "True" ELSE "False"
                 /\ steps' = Append(steps, Step("write", IF appended THEN "ok" ELSE "failed"))

\* a run that writes to the spreadsheet whether or not there is a receipt
AddReceiptsToSpreadsheetAlways ==
    /\ run_pc = "fetched"
    /\ add_receipts_to_spreadsheet(receipts)
    /\ run_pc' = "returned"
    /\ UNCHANGED <<email_authenticated, sheets_authenticated, save_receipts, emails, i,
                   receipts, saved, header>>
    /\ UNCHANGED <<auth_type, link, auth_calls>>
    /\ UNCHANGED <<parse_vars, call_vars>>

\* run, lines 253-262: the spreadsheet is written when there is a receipt
AddReceiptsToSpreadsheet ==
    /\ run_pc = "fetched"
    /\ IF receipts # <<>>
       THEN add_receipts_to_spreadsheet(receipts)
       ELSE /\ result' = "True"
            /\ UNCHANGED <<sent_rows, handed, last_op, steps>>
    /\ run_pc' = "returned"
    /\ UNCHANGED <<email_authenticated, sheets_authenticated, save_receipts, emails, i,
                   receipts, saved, header>>
    /\ UNCHANGED <<auth_type, link, auth_calls>>
    /\ UNCHANGED <<parse_vars, call_vars>>

NoCalls == frames = <<>> /\ locals = <<>>

Init == ParseIdle /\ RunIdle /\ NoCalls
Next == \/ ParseCall
        \/ IdentifyVendor
        \/ VendorSpecific
        \/ Generic
        \/ NormalizeDate
        \/ ExtractItems
        \/ Score
        \/ Return
Spec == Init /\ [][Next]_vars

InitRun == ParseIdle /\ RunInit /\ NoCalls
NextRun == \/ SetupEmailAuth
           \/ SetupSheets
           \/ FetchEmails
           \/ ProcessEmail
           \/ ReturnReceipts
           \/ AddReceiptsToSpreadsheet
SpecRun == InitRun /\ [][NextRun]_vars

(***************************************************************************)
(* GoogleSheetsIntegration used on its own, as its __main__ does: the      *)
(* object is authenticated, a spreadsheet is created, receipts are added   *)
(* one at a time or as a list                                              *)
(***************************************************************************)
MaxRows == 4

\* receipts a caller hands over, as read from receipt files: two records
\* with every key, and a dictionary that has only some of the keys
SheetReceipts ==
    {[InitialRecord(Email("Receipt from Joe's Cafe", "joe@example.com", ""))
         EXCEPT !.date = Str("2024-01-05"), !.total = Float(750),
                !.confidence = Float(70)],
     [InitialRecord(Email("Your Amazon.com order confirmation", "orders@amazon.com", ""))
         EXCEPT !.vendor = Str("Amazon"), !.date = Str("2024-01-05"),
                !.total = Float(103609), !.subtotal = Float(103000), !.tax = Float(210),
                !.shipping = Float(499), !.discount = Float(100),
                !.order_number = Str("112-7"), !.confidence = Float(ConfidenceScale)],
     [vendor |-> Str("Joe's Cafe"), total |-> Float(750)]}

ReceiptLists == {<<a>> : a \in SheetReceipts} \cup {<<a, b>> : a, b \in SheetReceipts}

\* authenticate, lines 50-100
Authenticate ==
    /\ run_pc = "idle"
    /\ ~sheets_authenticated
    /\ sheets_authenticated' \in BOOLEAN
    /\ UNCHANGED <<run_pc, email_authenticated, save_receipts, emails, i, receipts, saved,
                   sent_rows, result, header, handed, steps, collab_vars>>
    /\ UNCHANGED <<parse_vars, call_vars>>

\* create_spreadsheet, lines 112-196: update_values writes the header row
\* unless the creation or the update fails
CreateSpreadsheet ==
    /\ run_pc = "idle"
    /\ last_op' = DataOperation("create_spreadsheet", sheets_authenticated)
    /\ IF last_op'.raised
       THEN UNCHANGED header
       ELSE \E created \in BOOLEAN, updated \in BOOLEAN :
               header' = IF created /\ updated THEN HeaderRow ELSE header
    /\ UNCHANGED <<run_pc, email_authenticated, sheets_authenticated, save_receipts, emails,
                   i, receipts, saved, sent_rows, result, handed, steps>>
    /\ UNCHANGED <<auth_type, link, auth_calls>>
    /\ UNCHANGED <<parse_vars, call_vars>>

\* add_receipt_to_spreadsheet, lines 302-327: one row goes to append_values
AddReceiptToSpreadsheet ==
    /\ run_pc = "idle"
    /\ Len(sent_rows) < MaxRows
    /\ last_op' = DataOperation("add_receipt_to_spreadsheet", sheets_authenticated)
    /\ IF last_op'.raised
       THEN UNCHANGED <<sent_rows, handed>>
       ELSE \E receipt \in SheetReceipts :
               /\ sent_rows' = Append(sent_rows, RowOf(receipt))
               /\ handed' = Append(handed, receipt)
    /\ UNCHANGED <<run_pc, email_authenticated, sheets_authenticated, save_receipts, emails,
                   i, receipts, saved, result, header, steps>>
    /\ UNCHANGED <<auth_type, link, auth_calls>>
    /\ UNCHANGED <<parse_vars, call_vars>>

\* add_multiple_receipts, lines 339-369: the rows go to append_values in
\* one call
AddMultipleReceipts ==
    /\ run_pc = "idle"
    /\ last_op' = DataOperation("add_multiple_receipts", sheets_authenticated)
    /\ IF last_op'.raised
       THEN UNCHANGED <<sent_rows, handed>>
       ELSE \E receipt_data_list \in ReceiptLists :
               /\ Len(sent_rows) + Len(receipt_data_list) <= MaxRows
               /\ sent_rows' = sent_rows \o RowsOf(receipt_data_list)
               /\ handed' = handed \o receipt_data_list
    /\ UNCHANGED <<run_pc, email_authenticated, sheets_authenticated, save_receipts, emails,
                   i, receipts, saved, result, header, steps>>
    /\ UNCHANGED <<auth_type, link, auth_calls>>
    /\ UNCHANGED <<parse_vars, call_vars>>

NextSheets == \/ Authenticate
              \/ CreateSpreadsheet
              \/ AddReceiptToSpreadsheet
              \/ AddMultipleReceipts
SpecSheets == Init /\ [][NextSheets]_vars

(***************************************************************************)
(* The collaborators used on their own: an email authenticator of either   *)
(* class, authenticated and disconnected in any order, beside a            *)
(* GoogleSheetsIntegration object that nobody has authenticated; their     *)
(* data operations are called in any state, and so are the two methods of  *)
(* the scraper that guard the calls                                        *)
(***************************************************************************)
AuthTypes == {"gmail_api", "imap"}

\* the longest sequence of authenticate and disconnect calls on one
\* authenticator
MaxAuthCalls == 3

CollabIdle ==
    /\ run_pc = "idle"
    /\ email_authenticated = FALSE
    /\ sheets_authenticated = FALSE
    /\ save_receipts = TRUE
    /\ emails = <<>>
    /\ i = 0
    /\ receipts = <<>>
    /\ saved = <<>>
    /\ sent_rows = <<>>
    /\ result = "none"
    /\ header = <<>>
    /\ handed = <<>>
    /\ steps = <<>>
    /\ auth_type \in AuthTypes
    /\ link = "none"
    /\ auth_calls = <<>>
    /\ last_op = NoOperation

\* authenticate() returns False, email_auth.py 89, 105, 120-122 and
\* 326-328: self.authenticated is not assigned on these paths
FlagAfterFailure(authenticated) == authenticated

\* GmailAPIAuthenticator.authenticate, email_auth.py 79-122: the service is
\* built and the flag set, or the call answers False before line 116
GmailAuthenticate ==
    /\ run_pc = "idle"
    /\ auth_type = "gmail_api"
    /\ Len(auth_calls) < MaxAuthCalls
    /\ \E ok \in BOOLEAN :
          /\ link' = IF ok THEN "open" ELSE link
          /\ email_authenticated' = IF ok THEN TRUE ELSE FlagAfterFailure(email_authenticated)
          /\ auth_calls' = Append(auth_calls, IF ok THEN "authenticate_true"
                                                ELSE "authenticate_false")
    /\ UNCHANGED <<run_pc, sheets_authenticated, save_receipts, emails, i, receipts, saved,
                   sent_rows, result, header, handed, steps, auth_type, last_op>>
    /\ UNCHANGED <<parse_vars, call_vars>>

\* GmailAPIAuthenticator.disconnect, email_auth.py 124-127
GmailDisconnect ==
    /\ run_pc = "idle"
    /\ auth_type = "gmail_api"
    /\ Len(auth_calls) < MaxAuthCalls
    /\ link' = "none"
    /\ email_authenticated' = FALSE
    /\ auth_calls' = Append(auth_calls, "disconnect")
    /\ UNCHANGED <<run_pc, sheets_authenticated, save_receipts, emails, i, receipts, saved,
                   sent_rows, result, header, handed, steps, auth_type, last_op>>
    /\ UNCHANGED <<parse_vars, call_vars>>

\* IMAPAuthenticator.authenticate, email_auth.py 289-328: connected is
\* FALSE when IMAP4_SSL (or a prompt before it) raises, logged_in is FALSE
\* when login raises on the new connection
ImapAuthenticate ==
    /\ run_pc = "idle"
    /\ auth_type = "imap"
    /\ Len(auth_calls) < MaxAuthCalls
    /\ \E connected \in BOOLEAN, logged_in \in BOOLEAN :
          /\ logged_in => connected
          /\ link' = IF logged_in THEN "logged_in" ELSE IF connected THEN "open" ELSE link
          /\ email_authenticated' = IF logged_in THEN TRUE
                                    ELSE FlagAfterFailure(email_authenticated)
          /\ auth_calls' = Append(auth_calls, IF logged_in THEN "authenticate_true"
                                                ELSE "authenticate_false")
    /\ UNCHANGED <<run_pc, sheets_authenticated, save_receipts, emails, i, receipts, saved,
                   sent_rows, result, header, handed, steps, auth_type, last_op>>
    /\ UNCHANGED <<parse_vars, call_vars>>

\* IMAPAuthenticator.disconnect, email_auth.py 330-338
ImapDisconnect ==
    /\ run_pc = "idle"
    /\ auth_type = "imap"
    /\ Len(auth_calls) < MaxAuthCalls
    /\ link' = "none"
    /\ email_authenticated' = FALSE
    /\ auth_calls' = Append(auth_calls, "disconnect")
    /\ UNCHANGED <<run_pc, sheets_authenticated, save_receipts, emails, i, receipts, saved,
                   sent_rows, result, header, handed, steps, auth_type, last_op>>
    /\ UNCHANGED <<parse_vars, call_vars>>

\* fetch_emails of either class called by the owner of the authenticator,
\* email_auth.py 129-188 and 340-414
EmailFetchEmails ==
    /\ run_pc = "idle"
    /\ last_op' = DataOperation("fetch_emails", email_authenticated)
    /\ UNCHANGED <<run_pc, email_authenticated, sheets_authenticated, save_receipts, emails,
                   i, receipts, saved, sent_rows, result, header, handed, steps>>
    /\ UNCHANGED <<auth_type, link, auth_calls>>
    /\ UNCHANGED <<parse_vars, call_vars>>

\* update_values, sheets_integration.py 197-229, with the header row as its
\* values
UpdateValues ==
    /\ run_pc = "idle"
    /\ last_op' = DataOperation("update_values", sheets_authenticated)
    /\ IF last_op'.raised
       THEN UNCHANGED header
       ELSE \E updated \in BOOLEAN : header' = IF updated THEN HeaderRow ELSE header
    /\ UNCHANGED <<run_pc, email_authenticated, sheets_authenticated, save_receipts, emails,
                   i, receipts, saved, sent_rows, result, handed, steps>>
    /\ UNCHANGED <<auth_type, link, auth_calls>>
    /\ UNCHANGED <<parse_vars, call_vars>>

\* append_values, sheets_integration.py 231-264, with one row
AppendValues ==
    /\ run_pc = "idle"
    /\ Len(sent_rows) < MaxRows
    /\ last_op' = DataOperation("append_values", sheets_authenticated)
    /\ IF last_op'.raised
       THEN UNCHANGED sent_rows
       ELSE \E receipt \in SheetReceipts : sent_rows' = Append(sent_rows, RowOf(receipt))
    /\ UNCHANGED <<run_pc, email_authenticated, sheets_authenticated, save_receipts, emails,
                   i, receipts, saved, result, header, handed, steps>>
    /\ UNCHANGED <<auth_type, link, auth_calls>>
    /\ UNCHANGED <<parse_vars, call_vars>>

\* get_values, sheets_integration.py 266-290
GetValues ==
    /\ run_pc = "idle"
    /\ last_op' = DataOperation("get_values", sheets_authenticated)
    /\ UNCHANGED <<run_pc, email_authenticated, sheets_authenticated, save_receipts, emails,
                   i, receipts, saved, sent_rows, result, header, handed, steps>>
    /\ UNCHANGED <<auth_type, link, auth_calls>>
    /\ UNCHANGED <<parse_vars, call_vars>>

\* a caller other than run calls fetch_and_process_emails on a scraper whose
\* email authenticator is missing or not authenticated
CallFetchAndProcessEmails ==
    /\ run_pc = "idle"
    /\ ~email_authenticated
    /\ run_pc' = "fetch"
    /\ UNCHANGED <<email_authenticated, sheets_authenticated, save_receipts, emails, i,
                   receipts, saved, sent_rows, result, header, handed, steps, collab_vars>>
    /\ UNCHANGED <<parse_vars, call_vars>>

\* a caller other than run calls add_receipts_to_spreadsheet with a list of
\* receipts, which may be empty
CallAddReceiptsToSpreadsheet ==
    /\ run_pc = "idle"
    /\ \E list \in ReceiptLists \cup {<<>>} :
          /\ Len(sent_rows) + Len(list) <= MaxRows
          /\ receipts' = list
          /\ add_receipts_to_spreadsheet(list)
    /\ run_pc' = "returned"
    /\ UNCHANGED <<email_authenticated, sheets_authenticated, save_receipts, emails, i,
                   saved, header>>
    /\ UNCHANGED <<auth_type, link, auth_calls>>
    /\ UNCHANGED <<parse_vars, call_vars>>

InitCollab == ParseIdle /\ CollabIdle /\ NoCalls
NextCollab == \/ GmailAuthenticate
              \/ GmailDisconnect
              \/ ImapAuthenticate
              \/ ImapDisconnect
              \/ EmailFetchEmails
              \/ CreateSpreadsheet
              \/ UpdateValues
              \/ AppendValues
              \/ GetValues
              \/ AddReceiptToSpreadsheet
              \/ AddMultipleReceipts
              \/ CallFetchAndProcessEmails
              \/ FetchEmails
              \/ CallAddReceiptsToSpreadsheet
SpecCollab == InitCollab /\ [][NextCollab]_vars

(***************************************************************************)
(* The scorer and the caller's test on records of every shape: each of the *)
(* eight scored fields null or not, and a total of 0.0 as well             *)
(***************************************************************************)
\* the value of a scored field that is not null; total_zero gives a total
\* of 0.0
FieldValue(field, total_zero) ==
    IF field = "vendor" THEN Str("Amazon")
    ELSE IF field = "date" THEN Str("2024-01-05")
    ELSE IF field = "order_number" THEN Str("112-7")
    ELSE IF field = "total" /\ total_zero THEN Float(0)
    ELSE Float(750)

\* the records handed to the scorer: any of the scored fields non-null
ScoreInputs ==
    {[field \in DOMAIN InitialRecord(NoEmail) |->
         IF field \in present THEN FieldValue(field, total_zero)
         ELSE InitialRecord(NoEmail)[field]] :
     present \in SUBSET ScoredFields, total_zero \in BOOLEAN}

ScoreStart ==
    /\ pc = "confidence"
    /\ email_data = NoEmail
    /\ body = ""
    /\ receipt_data \in ScoreInputs
    /\ vendor = receipt_data.vendor
    /\ vs_key = ""
    /\ generic_entry = InitialRecord(NoEmail)
    /\ raw_date = None
    /\ writes = <<>>
    /\ self = Instance
    /\ given = NoEmail
    /\ converted = "none"

\* fetch_and_process_emails, lines 176-183, on the record parse returned:
\* the record is appended to the list or skipped
KeepOrSkip ==
    /\ pc = "done"
    /\ run_pc = "idle"
    /\ receipts' = IF Accept(receipt_data) THEN Append(receipts, receipt_data) ELSE receipts
    /\ steps' = Append(steps, Step("email", IF Accept(receipt_data) THEN "accepted"
                                            ELSE "skipped"))
    /\ run_pc' = "fetched"
    /\ UNCHANGED <<email_authenticated, sheets_authenticated, save_receipts, emails, i,
                   saved, sent_rows, result, header, handed, collab_vars>>
    /\ UNCHANGED <<parse_vars, call_vars>>

InitScore == ScoreStart /\ RunIdle /\ NoCalls
NextScore == Score \/ KeepOrSkip
SpecScore == InitScore /\ [][NextScore]_vars

(***************************************************************************)
(* Several calls of parse on one ReceiptParser, one after another or with  *)
(* their stages interleaved.  body, receipt_data and vendor are local      *)
(* variables of parse, so each call has its own; self is the one parser.   *)
(***************************************************************************)
MaxCalls == 3
MaxThreads == 2

CallMessages ==
    <<Email("Your Amazon.com order confirmation", "orders@amazon.com",
            "Total: $7.50\nOrder Total: $0.00"),
      Email("Receipt from Joe's Cafe", "joe@example.com",
            "Total: $7.50\nDate: January 5, 2024"),
      Email("Hello", "joe@example.com", "Subtotal: $30.00")>>

\* overlapped: a stage of the call ran while another call was under way
IdleFrame == [pc |-> "idle", email_data |-> NoEmail, returned |-> InitialRecord(NoEmail),
              overlapped |-> FALSE]
IdleLocals == [body |-> "", receipt_data |-> InitialRecord(NoEmail), vendor |-> None]

\* locals kept in one place for all calls, as attributes of the parser
SlotShared(call) == 1

\* where the locals of a call are: in the call's own frame
Slot(call) == call

\* lines 128-149: body and receipt_data are bound, vendor is not yet
StartLocals(email, l) ==
    [l EXCEPT !.body = IF HasMarkup(Get(email, "body").s)
                       THEN _extract_text_from_html(Get(email, "body").s, TRUE)
                       ELSE Get(email, "body").s,
              !.receipt_data = InitialRecord(email)]

\* line 228: self.vendor_patterns.get(vendor, {})
EntriesOf(parser, key) ==
    IF key \in DOMAIN parser.vendor_patterns THEN parser.vendor_patterns[key] ELSE <<>>

\* the locals after one stage of lines 151-166
Stage(stage, email, l, entries) ==
    IF stage = "identify"
    THEN LET v == _identify_vendor(email)
         IN  [l EXCEPT !.vendor = v,
                       !.receipt_data = IF Truthy(v) THEN [@ EXCEPT !.vendor = v] ELSE @]
    ELSE IF stage = "vendor_specific"
    THEN [l EXCEPT !.receipt_data = VendorLoop(entries, 1, l.body, @)]
    ELSE IF stage = "generic"
    THEN [l EXCEPT !.receipt_data = GenericCascade(l.body, @)]
    ELSE IF stage = "date"
    THEN [l EXCEPT !.receipt_data = DateNormalizer(@)]
    ELSE IF stage = "items"
    THEN [l EXCEPT !.receipt_data = [@ EXCEPT !.items = List(_extract_items(l.body))]]
    ELSE [l EXCEPT !.receipt_data =
                      [@ EXCEPT !.confidence = Float(_calculate_confidence(l.receipt_data))]]

\* a call of parse starts
CallParse(call, m) ==
    /\ frames[call].pc = "idle"
    /\ frames' = [frames EXCEPT ![call] = [@ EXCEPT !.pc = "identify", !.email_data = m]]
    /\ locals' = [locals EXCEPT ![Slot(call)] = StartLocals(m, @)]
    /\ UNCHANGED <<parse_vars, run_vars>>

\* a call with any of the messages, made when every earlier call has
\* returned
SeqParse(call) ==
    /\ \A earlier \in 1..(call - 1) : frames[earlier].pc = "done"
    /\ \E k \in 1..Len(CallMessages) : CallParse(call, CallMessages[k])

\* calls made at any time, each with a message of its own
ThreadParse(call) ==
    CallParse(call, CallMessages[((call - 1) % Len(CallMessages)) + 1])

\* a call runs its next stage; after the last one it returns its record
CallStep(call) ==
    /\ frames[call].pc \notin {"idle", "done"}
    /\ \E key \in {Lower(locals[Slot(call)].vendor.s)} :
       \E l \in {Stage(frames[call].pc, frames[call].email_data, locals[Slot(call)],
                       EntriesOf(self, key))} :
          /\ locals' = [locals EXCEPT ![Slot(call)] = l]
          /\ frames' = [frames EXCEPT ![call] =
                           [@ EXCEPT !.pc = NextStage(frames[call].pc, l),
                                     !.returned = IF NextStage(frames[call].pc, l) = "done"
                                                  THEN l.receipt_data ELSE @,
                                     !.overlapped =
                                        @ \/ \E other \in DOMAIN frames \ {call} :
                                                frames[other].pc \notin {"idle", "done"}]]
          /\ self' = IF frames[call].pc = "vendor_specific"
                        /\ key \in DOMAIN self.vendor_patterns
                     THEN [self EXCEPT !.vendor_patterns[key] =
                                          EntriesAfterLoop(EntriesOf(self, key))]
                     ELSE self
    /\ UNCHANGED <<local_vars, run_vars>>

InitSeq == ParseIdle /\ RunIdle /\ frames = [call \in 1..MaxCalls |-> IdleFrame]
                     /\ locals = [call \in 1..MaxCalls |-> IdleLocals]
NextSeq == \E call \in DOMAIN frames : SeqParse(call) \/ CallStep(call)
SpecSeq == InitSeq /\ [][NextSeq]_vars

InitCalls == ParseIdle /\ RunIdle /\ frames = [call \in 1..MaxThreads |-> IdleFrame]
                       /\ locals = [call \in 1..MaxThreads |-> IdleLocals]
NextCalls == \E call \in DOMAIN frames : ThreadParse(call) \/ CallStep(call)
SpecCalls == InitCalls /\ [][NextCalls]_vars

(***************************************************************************)
(* Properties of the vendor identifier                                     *)
(***************************************************************************)
\* the identifier has returned and its result is in vendor
Identified == pc \in {"vendor_specific", "generic", "date", "items", "confidence", "done"}

\* the subject contains none of the receipt keywords, in any case
NoKeyword(subject) ==
    \A keyword \in {"receipt", "order", "purchase", "confirmation", "invoice"} :
       ~Contains(Lower(subject), keyword)

\* C7: for a subject that contains none of the keywords receipt, order,
\* purchase, confirmation, invoice the identifier returns null, whoever the
\* sender is and whatever vendor the subject names.
C7_KeywordGate ==
    (Identified /\ NoKeyword(email_data.subject)) => vendor = None

\* C7: the identifier has returned null for a message from orders@amazon.com
\* whose subject names Walmart and has no keyword.
C7_Witness ==
    /\ Identified
    /\ email_data.subject = "Walmart deals for you"
    /\ email_data.from = "orders@amazon.com"
    /\ NoKeyword(email_data.subject)
    /\ vendor = None

\* the entries of the domain table whose key the sender's domain contains
DomainKeys(from) ==
    {k \in 1..Len(domain_to_vendor) :
        /\ ReSearch(DomainPattern, from).ok
        /\ Contains(Lower(Group(ReSearch(DomainPattern, from), from, 1)),
                    domain_to_vendor[k][1])}

\* the vendor names the subject contains
SubjectNames(subject) ==
    {k \in 1..Len(vendor_names) : Contains(Lower(subject), Lower(vendor_names[k]))}

Least(k, set) == k \in set /\ \A j \in set : k <= j

\* C8: for a subject that passes the keyword gate the identifier returns
\* the vendor of the domain-table key the sender's domain contains, whatever
\* the subject names; when the domain contains no key, or the sender has no
\* domain, it returns the first name of the vendor-name list that the
\* subject contains, and null when the subject contains none.
C8_DomainBeforeSubject ==
    (Identified /\ ~NoKeyword(email_data.subject)) =>
       /\ \A k \in DomainKeys(email_data.from) :
             Least(k, DomainKeys(email_data.from)) => vendor = Str(domain_to_vendor[k][2])
       /\ DomainKeys(email_data.from) = {} =>
             /\ \A k \in SubjectNames(email_data.subject) :
                   Least(k, SubjectNames(email_data.subject)) => vendor = Str(vendor_names[k])
             /\ SubjectNames(email_data.subject) = {} => vendor = None

\* C8: the identifier has returned Walmart for a message from
\* help@walmart.com whose subject passes the gate and names Amazon.
C8_Witness ==
    /\ Identified
    /\ email_data.from = "help@walmart.com"
    /\ email_data.subject = "Your Amazon.com order confirmation"
    /\ ~NoKeyword(email_data.subject)
    /\ DomainKeys(email_data.from) # {}
    /\ \E k \in SubjectNames(email_data.subject) : vendor_names[k] = "Amazon"
    /\ vendor = Str("Walmart")

(***************************************************************************)
(* Properties of the cascades                                              *)
(***************************************************************************)
AfterGeneric == pc \in {"date", "items", "confidence", "done"}

\* pattern k of the field matches somewhere in the text and its first group
\* converts
Captures(field, k, text) ==
    /\ ReSearchI(patterns[field][k], text).ok
    /\ Convert(field, Strip(Group(ReSearchI(patterns[field][k], text), text, 1))).ok

\* the converted first group of pattern k of the field
Captured(field, k, text) ==
    Convert(field, Strip(Group(ReSearchI(patterns[field][k], text), text, 1))).v

\* where in the text pattern k of the field matches
MatchStart(field, k, text) == ReSearchI(patterns[field][k], text).b

Capturing(field, text) == {k \in 1..Len(patterns[field]) : Captures(field, k, text)}

DisplayName(key) == vendor_patterns[key][1][2]

\* C2: once the identifier has returned the display name of a vendor that
\* has a set in the vendor-specific table, that vendor's set has run by the
\* time the generic cascade starts.
C2_VendorSetRuns ==
    pc \in {"generic", "date", "items", "confidence", "done"} =>
       \A key \in DOMAIN vendor_patterns :
          vendor = Str(DisplayName(key)) => vs_key = key

\* C6: when the generic cascade has run, every field it had to fill holds
\* the value captured by the pattern of least index among those that match
\* the text and convert, wherever in the text the patterns match, and is
\* null when no pattern of the field does.
C6_FirstPatternWins ==
    pc = "date" =>
       \A field \in DOMAIN patterns :
          generic_entry[field] = None =>
             /\ Capturing(field, body) = {} => receipt_data[field] = None
             /\ \A k \in Capturing(field, body) :
                   (\A j \in Capturing(field, body) : k <= j) =>
                      receipt_data[field] = Captured(field, k, body)

\* C6: the generic cascade has run on a text in which two patterns of a
\* field capture different values and the later one in the list matches
\* earlier in the text; the field holds the value of the earlier one in the
\* list.
C6_Witness ==
    /\ pc = "date"
    /\ \E field \in DOMAIN patterns :
          /\ generic_entry[field] = None
          /\ \E j \in Capturing(field, body) :
                /\ \A k \in Capturing(field, body) : j <= k
                /\ receipt_data[field] = Captured(field, j, body)
                /\ \E k \in Capturing(field, body) :
                      /\ j < k
                      /\ MatchStart(field, k, body) < MatchStart(field, j, body)
                      /\ Captured(field, k, body) # Captured(field, j, body)

(***************************************************************************)
(* Properties of the date                                                  *)
(***************************************************************************)
AfterNormalizer == pc \in {"items", "confidence", "done"}

\* the text is YYYY-MM-DD and names a day of the calendar
IsIsoDate(text) ==
    /\ Len(text) = 10
    /\ IsDigits(SubSeq(text, 1, 4))
    /\ SubSeq(text, 5, 5) = "-"
    /\ IsDigits(SubSeq(text, 6, 7))
    /\ SubSeq(text, 8, 8) = "-"
    /\ IsDigits(SubSeq(text, 9, 10))
    /\ ValidDate(ToInt(SubSeq(text, 1, 4)), ToInt(SubSeq(text, 6, 7)),
                 ToInt(SubSeq(text, 9, 10)))

\* the text is the YYYY-MM-DD form of the date the raw string parses to
IsIsoDateOf(text, raw) ==
    /\ IsIsoDate(text)
    /\ DateutilParse(raw).ok
    /\ ToInt(SubSeq(text, 1, 4)) = DateutilParse(raw).y
    /\ ToInt(SubSeq(text, 6, 7)) = DateutilParse(raw).m
    /\ ToInt(SubSeq(text, 9, 10)) = DateutilParse(raw).d

\* C9: when the cascades left a captured string in date, then after the
\* date step the field holds the YYYY-MM-DD form of that string if it
\* parses and the captured string itself if it does not; it is not null,
\* and parse goes on to return.
C9_DateRewrittenOrKept ==
    (AfterNormalizer /\ raw_date.k = "str") =>
       /\ DateutilParse(raw_date.s).ok =>
             /\ receipt_data.date.k = "str"
             /\ IsIsoDateOf(receipt_data.date.s, raw_date.s)
       /\ ~DateutilParse(raw_date.s).ok => receipt_data.date = raw_date
       /\ receipt_data.date # None

\* C9: the cascades captured "Smarch 5, 2024", which does not parse, and the
\* record is returned with that string in date.
C9_Witness ==
    /\ pc = "done"
    /\ raw_date = Str("Smarch 5, 2024")
    /\ ~DateutilParse(raw_date.s).ok
    /\ receipt_data.date = Str("Smarch 5, 2024")

\* C10 as stated: the date of a returned record is null or a YYYY-MM-DD
\* string, a captured date that does not parse giving null.
C10_DateNullOrIso ==
    pc = "done" =>
       \/ receipt_data.date = None
       \/ receipt_data.date.k = "str" /\ IsIsoDate(receipt_data.date.s)

\* C10: the date of a returned record is null when no date was captured, a
\* YYYY-MM-DD string when the captured date parses, and otherwise the
\* captured string, which does not parse, as it was captured.
C10_DateNullIsoOrRaw ==
    pc = "done" =>
       \/ raw_date = None /\ receipt_data.date = None
       \/ /\ raw_date.k = "str"
          /\ receipt_data.date.k = "str"
          /\ IsIsoDateOf(receipt_data.date.s, raw_date.s)
       \/ /\ raw_date.k = "str"
          /\ ~DateutilParse(raw_date.s).ok
          /\ ~IsIsoDate(raw_date.s)
          /\ receipt_data.date = raw_date

\* C10: a record is returned whose date is the captured "13/45/2024", which
\* names no day of the calendar.
C10_Witness ==
    /\ pc = "done"
    /\ raw_date = Str("13/45/2024")
    /\ receipt_data.date = Str("13/45/2024")
    /\ ~IsIsoDate(receipt_data.date.s)

(***************************************************************************)
(* Properties of the confidence score                                      *)
(***************************************************************************)
\* how many of the fields are non-null in the record
NonNull(fields) == Cardinality({field \in fields : receipt_data[field] # None})
RequiredNonNull == NonNull({"vendor", "date", "total"})
OptionalNonNull == NonNull({"subtotal", "tax", "shipping", "discount", "order_number"})

\* C3: the confidence of a returned record is (r/3)*0.7 + (o/5)*0.3, r and
\* o being the numbers of non-null required and optional fields of that
\* record; it lies in [0, 1] and is determined by r and o alone, the items
\* list having no part in it.  In units of 1/150: 35 r + 9 o.
C3_ConfidenceFormula ==
    pc = "done" =>
       /\ receipt_data.confidence.k = "float"
       /\ 3 * 5 * 10 * receipt_data.confidence.n
             = ConfidenceScale * (5 * 7 * RequiredNonNull + 3 * 3 * OptionalNonNull)
       /\ 0 <= receipt_data.confidence.n
       /\ receipt_data.confidence.n <= ConfidenceScale

\* C3: a returned record with extracted items, two required fields and one
\* optional field; its confidence is 79/150.
C3_Witness ==
    /\ pc = "done"
    /\ receipt_data.items.l # <<>>
    /\ RequiredNonNull = 2
    /\ OptionalNonNull = 1
    /\ receipt_data.confidence.n * 150 = 79 * ConfidenceScale

\* no pattern of the generic table matches the text
NoPatternMatches(text) ==
    \A field \in DOMAIN patterns :
       \A k \in 1..Len(patterns[field]) : ~ReSearchI(patterns[field][k], text).ok

\* C4: the confidence of a returned record is 0.0 exactly when all eight
\* scored fields are null and 1.0 exactly when all eight are non-null; a
\* message whose subject has no receipt keyword and whose body matches no
\* pattern comes back with vendor, date and total null and confidence 0.0.
C4_ConfidenceExtremes ==
    pc = "done" =>
       /\ receipt_data.confidence.n = 0 <=> RequiredNonNull + OptionalNonNull = 0
       /\ receipt_data.confidence.n = ConfidenceScale
             <=> RequiredNonNull + OptionalNonNull = 3 + 5
       /\ (NoKeyword(email_data.subject) /\ NoPatternMatches(body)) =>
             /\ receipt_data.vendor = None
             /\ receipt_data.date = None
             /\ receipt_data.total = None
             /\ receipt_data.confidence = Float(0)

\* C4: the message with subject "Hello" and body "nothing relevant" has been
\* parsed; nothing was extracted and the confidence is 0.0.
C4_Witness ==
    /\ pc = "done"
    /\ email_data.subject = "Hello"
    /\ email_data.body = "nothing relevant"
    /\ NoKeyword(email_data.subject)
    /\ NoPatternMatches(body)
    /\ RequiredNonNull + OptionalNonNull = 0
    /\ receipt_data.confidence = Float(0)

(***************************************************************************)
(* Properties of a run of the scraper                                      *)
(***************************************************************************)
\* a confidence, in ConfidenceScale-ths, of at least 0.3
AtLeastThreeTenths(confidence) == 10 * confidence.n >= 3 * ConfidenceScale

\* C5: at every point of a run, every record in the receipts list, every
\* record written to a receipt file and every row handed to the spreadsheet
\* has a confidence of at least 0.3.
C5_LowConfidenceDiscarded ==
    /\ \A k \in 1..Len(receipts) : AtLeastThreeTenths(receipts[k].confidence)
    /\ \A k \in 1..Len(saved) : AtLeastThreeTenths(saved[k].data.confidence)
    /\ \A k \in 1..Len(sent_rows) : AtLeastThreeTenths(sent_rows[k][11])

\* C5: a run has ended in which the first message scored 44/150, below 0.3,
\* and the second 1.0; only the second is in the list, in a file and in
\* the rows sent.
C5_Witness ==
    /\ run_pc = "returned"
    /\ Len(emails) = 2
    /\ emails[1].body = "Subtotal: $30.00"
    /\ ~AtLeastThreeTenths(Parse(emails[1], TRUE).confidence)
    /\ emails[2].body = FullReceipt
    /\ Len(receipts) = 1
    /\ receipts[1].confidence.n = ConfidenceScale
    /\ Len(saved) = 1
    /\ saved[1].data = receipts[1]
    /\ sent_rows = <<RowOf(receipts[1])>>
    /\ result = "True"

(***************************************************************************)
(* Properties of a parse without a vendor                                  *)
(***************************************************************************)
\* C19: when the identifier returned null, no vendor-specific set ran, the
\* generic cascade received the record as it was initialised, and every
\* field that has a capturing generic pattern is non-null after the generic
\* cascade; the message with subject "Receipt from Joe's Cafe" from an
\* unknown sender with body "Total: $7.50" comes back with vendor null and
\* total 7.50.
C19_GenericRunsWithoutVendor ==
    /\ (AfterGeneric /\ vendor = None) =>
          /\ vs_key = ""
          /\ generic_entry = InitialRecord(email_data)
          /\ \A field \in DOMAIN patterns :
                Capturing(field, body) # {} => receipt_data[field] # None
    /\ (/\ pc = "done"
        /\ email_data.subject = "Receipt from Joe's Cafe"
        /\ email_data.from = "joe@example.com"
        /\ email_data.body = "Total: $7.50") =>
          /\ receipt_data.vendor = None
          /\ receipt_data.total = Float(750)

\* C19: the Joe's Cafe message has been parsed: the identifier returned
\* null, no vendor set ran, and the generic cascade set the total to 7.50.
C19_Witness ==
    /\ pc = "done"
    /\ email_data.subject = "Receipt from Joe's Cafe"
    /\ email_data.from = "joe@example.com"
    /\ email_data.body = "Total: $7.50"
    /\ vendor = None
    /\ vs_key = ""
    /\ DomainKeys(email_data.from) = {}
    /\ receipt_data.vendor = None
    /\ receipt_data.total = Float(750)

(***************************************************************************)
(* Properties of the line items                                            *)
(***************************************************************************)
AfterItems == pc \in {"confidence", "done"}

\* C14: every line item of the record has a total equal to its quantity
\* times its unit price; for the body "2 x Widget $5.00" the item of the
\* quantity shape, the first of the list, is Widget with quantity 2, unit
\* price 5.00 and line total 10.00.
C14_ItemTotal ==
    AfterItems =>
       /\ \A k \in 1..Len(receipt_data.items.l) :
             receipt_data.items.l[k].total
                = receipt_data.items.l[k].quantity * receipt_data.items.l[k].price
       /\ email_data.body = "2 x Widget $5.00" =>
             /\ Len(receipt_data.items.l) >= 1
             /\ receipt_data.items.l[1]
                   = [name |-> "Widget", quantity |-> 2, price |-> 500, total |-> 1000]

\* C14: the body "2 x Widget $5.00" has been through the extractor and its
\* first item has quantity 2, unit price 5.00 and total 10.00.
C14_Witness ==
    /\ AfterItems
    /\ email_data.body = "2 x Widget $5.00"
    /\ receipt_data.items.l # <<>>
    /\ receipt_data.items.l[1].quantity = 2
    /\ receipt_data.items.l[1].price = 500
    /\ receipt_data.items.l[1].total = 1000

\* C15: every line item of a record has a quantity of at least 1 and a
\* unit price that is not negative.
C15_QuantityPositive ==
    AfterItems =>
       \A k \in 1..Len(receipt_data.items.l) :
          /\ receipt_data.items.l[k].quantity >= 1
          /\ receipt_data.items.l[k].price >= 0

(***************************************************************************)
(* Properties of the assignments to the record                             *)
(***************************************************************************)
\* the assignments to the field logged so far, all of them and by stage
WritesTo(field) == {k \in 1..Len(writes) : writes[k].field = field}
WritesToBy(field, stages) ==
    {k \in 1..Len(writes) : writes[k].field = field /\ writes[k].by \in stages}

\* C17, as stated: during one parse call each of the eight fields is
\* assigned at most once between the initialisation of the record and the
\* end of the cascades.
C17_WrittenOnce ==
    \A field \in ScoredFields : Cardinality(WritesTo(field)) <= 1

\* C17, amended: the two cascades together assign each of the eight fields
\* at most once, and total, subtotal, tax, shipping, discount and
\* order_number are assigned at most once in the whole call; vendor has at
\* most one more assignment, by parse from the identifier's result before
\* the cascades, and date at most one more, by the date step after them.
C17_WrittenOncePerCascade ==
    /\ \A field \in ScoredFields :
          Cardinality(WritesToBy(field, {"vendor_specific", "generic"})) <= 1
    /\ \A field \in ScoredFields \ {"vendor", "date"} :
          Cardinality(WritesTo(field)) <= 1
    /\ Cardinality(WritesToBy("vendor", {"identify"})) <= 1
    /\ WritesTo("vendor") = WritesToBy("vendor", {"identify", "vendor_specific", "generic"})
    /\ Cardinality(WritesToBy("date", {"date"})) <= 1
    /\ WritesTo("date") = WritesToBy("date", {"vendor_specific", "generic", "date"})
    /\ \A j \in WritesToBy("date", {"date"}) :
          \A k \in WritesTo("date") : k <= j

\* C17: an Amazon message has been parsed in which vendor was assigned by
\* parse and again by Amazon's set, and date by a cascade and again by the
\* date step, while total was assigned once.
C17_Witness ==
    /\ pc = "done"
    /\ vs_key = "amazon"
    /\ Cardinality(WritesTo("vendor")) = 2
    /\ Cardinality(WritesTo("date")) = 2
    /\ Cardinality(WritesTo("total")) = 1
    /\ raw_date # None
    /\ receipt_data.date # raw_date

(***************************************************************************)
(* Properties of the rows sent to the spreadsheet                          *)
(***************************************************************************)
\* the column order the downstream sheet expects
Columns == <<"date", "vendor", "total", "subtotal", "tax", "shipping", "discount",
             "order_number", "currency", "email_subject", "confidence">>

\* the key a header title stands for: lower case, '_' for ' '
RECURSIVE KeyOfTitle(_)
KeyOfTitle(title) ==
    IF title = "" THEN ""
    ELSE (IF SubSeq(title, 1, 1) = " " THEN "_" ELSE Lower(SubSeq(title, 1, 1)))
         \o KeyOfTitle(SubSeq(title, 2, Len(title)))

\* C16: the rows sent to the spreadsheet are, in order, one for each receipt
\* handed to add_receipt_to_spreadsheet or add_multiple_receipts; each has
\* exactly 11 cells, which hold the receipt's date, vendor, total, subtotal,
\* tax, shipping, discount, order_number, currency, email_subject and
\* confidence in this order; the header row create_spreadsheet writes names
\* the same 11 columns in the same order.
C16_RowOrder ==
    /\ Len(sent_rows) = Len(handed)
    /\ \A k \in 1..Len(sent_rows) :
          /\ Len(sent_rows[k]) = 11
          /\ \A j \in 1..11 :
                Columns[j] \in DOMAIN handed[k] => sent_rows[k][j] = handed[k][Columns[j]]
    /\ header # <<>> =>
          /\ Len(header) = 11
          /\ \A j \in 1..11 : KeyOfTitle(header[j]) = Columns[j]

\* C16: the header row is written and three rows were sent, by
\* add_receipt_to_spreadsheet and by add_multiple_receipts; they are the
\* rows of the receipts handed over, the second and third differ, and the
\* third is the row of the Amazon receipt.
C16_Witness ==
    /\ header # <<>>
    /\ Len(sent_rows) = 3
    /\ Len(handed) = 3
    /\ handed[2] # handed[3]
    /\ sent_rows[2] # sent_rows[3]
    /\ sent_rows[3][2] = Str("Amazon")
    /\ sent_rows[3][3] = Float(103609)
    /\ sent_rows[3][4] = Float(103000)

(***************************************************************************)
(* Properties of what a call leaves behind                                 *)
(***************************************************************************)
\* C11: no call of parse ends in an exception, whatever the message: with
\* keys missing, with a subject, sender or body of None, with markup that
\* does not convert or a date that does not parse.
C11_NeverRaises == pc # "raised"

\* C18: from the call to the return, the caller's message has the subject,
\* sender, body and date it was handed over with, also when the body is
\* markup and parse works on the text converted from it, and the parser's
\* two pattern tables are at all times as __init__ built them.
C18_InputAndTablesUnchanged ==
    /\ pc # "idle" => email_data = given
    /\ self.patterns = patterns
    /\ self.vendor_patterns = vendor_patterns

\* C18: an Amazon message with a markup body has been parsed: Amazon's set
\* ran on the converted text, the message still holds the markup, and the
\* tables are as they were.
C18_Witness ==
    /\ pc = "done"
    /\ vs_key = "amazon"
    /\ HasMarkup(given.body)
    /\ body # given.body
    /\ email_data.body = given.body
    /\ receipt_data.total = Float(4210)
    /\ self = Instance

(***************************************************************************)
(* Properties of several calls on one parser                               *)
(***************************************************************************)
Returned == {call \in DOMAIN frames : frames[call].pc = "done"}

\* C12: of the calls made one after another on one parser, any two with
\* the same message have returned the same record, however many calls with
\* whatever messages came before or in between.
C12_SameMessageSameRecord ==
    \A first \in Returned, second \in Returned :
       frames[first].email_data = frames[second].email_data
          => frames[first].returned = frames[second].returned

\* C12: the Amazon message was parsed, then the Joe's Cafe message, then
\* the Amazon message again; Amazon's set ran both times and the first and
\* the third record are the same, with total 0.0, and differ from the second.
C12_Witness ==
    /\ Returned = {1, 2, 3}
    /\ \A call \in Returned : ~frames[call].overlapped
    /\ frames[1].email_data = frames[3].email_data
    /\ frames[1].email_data.from = "orders@amazon.com"
    /\ frames[2].email_data.from = "joe@example.com"
    /\ frames[1].returned = frames[3].returned
    /\ frames[1].returned.total = Float(0)
    /\ frames[2].returned.total = Float(750)
    /\ frames[2].returned # frames[1].returned

\* C13: of the calls running with their stages interleaved on one parser,
\* each has returned the record parse returns for its message when no
\* other call runs.
C13_AsWhenRunAlone ==
    \A call \in Returned : frames[call].returned = Parse(frames[call].email_data, TRUE)

\* C13: two calls with different messages ran stages while the other was
\* under way, and both have returned.
C13_Witness ==
    /\ Returned = {1, 2}
    /\ frames[1].overlapped
    /\ frames[2].overlapped
    /\ frames[1].email_data # frames[2].email_data
    /\ frames[1].returned.vendor = Str("Amazon")
    /\ frames[2].returned.vendor = None
    /\ frames[2].returned.total = Float(750)
    /\ locals[1].receipt_data = frames[1].returned
    /\ locals[2].receipt_data = frames[2].returned

(***************************************************************************)
(* Properties of the order of the line items                               *)
(***************************************************************************)
\* the items one shape gives on the whole text
ItemsOfShape(k) ==
    ItemsOfMatches(item_patterns[k], ReFindAll(item_patterns[k], body), body)

\* C21: the items of the record are all items of the quantity shape on the
\* whole text, then all items of the "each" shape, then all items of the
\* plain shape, each list in text order and none left out, so that a piece
\* of text matched by several shapes gives one item per shape.
C21_ShapesInOrder ==
    AfterItems =>
       receipt_data.items.l = ItemsOfShape(1) \o ItemsOfShape(2) \o ItemsOfShape(3)

\* C21: for "Cake $4.00" followed by "2 x Tea $3.00 each" the list holds Tea
\* of the quantity shape first, then the item of the "each" shape, then Cake
\* and "2 x Tea" of the plain shape: Cake is first in the text and third in
\* the list, and the Tea line gave three items.
C21_Witness ==
    /\ AfterItems
    /\ email_data.body = "Cake $4.00\n2 x Tea $3.00 each"
    /\ Len(receipt_data.items.l) = 4
    /\ receipt_data.items.l[1] = [name |-> "Tea", quantity |-> 2, price |-> 300, total |-> 600]
    /\ receipt_data.items.l[2].price = 300
    /\ receipt_data.items.l[3] = [name |-> "Cake", quantity |-> 1, price |-> 400, total |-> 400]
    /\ receipt_data.items.l[4]
          = [name |-> "2 x Tea", quantity |-> 1, price |-> 300, total |-> 300]

(***************************************************************************)
(* Properties of the text the stages work on                               *)
(***************************************************************************)
\* a call is past line 131 and has not raised
TextBound == pc \notin {"idle", "raised"}

\* C22: in a call whose body is a string, the text the stages work on is the
\* body as given when it holds neither "<html" nor "<body" in any case of
\* letters, the text of the markup when it does and the conversion gave
\* text, and the body as given when the conversion raised; and a call that
\* raised has a null body, subject or sender, so none raised because of the
\* conversion.
C22_TextOfBody ==
    /\ TextBound =>
          LET b == Get(given, "body").s
              marked == Contains(Lower(b), "<html") \/ Contains(Lower(b), "<body")
          IN  /\ ~marked => converted = "none" /\ body = b
              /\ marked => converted \in {"ok", "failed"}
              /\ converted = "ok" => body = HtmlToText(b) /\ body # b
              /\ converted = "failed" => body = b
    /\ pc = "raised" => given.null \cap {"body", "subject", "from"} # {}

\* C22: the conversion of the markup receipt raised, the call went on with
\* the markup itself as its text and has reached the end.
C22_Witness ==
    /\ pc = "done"
    /\ converted = "failed"
    /\ given.body = HtmlReceipt
    /\ body = HtmlReceipt

\* C22: the conversion of the markup receipt gave the text of its two
\* paragraphs, without the tags and the script.
C22_WitnessConverted ==
    /\ pc = "done"
    /\ converted = "ok"
    /\ given.body = HtmlReceipt
    /\ body = "Order Total: $42.10 Date:\n5 January 2024"

\* C22: markup in capital letters is converted too.
C22_WitnessCapitals ==
    /\ pc = "done"
    /\ converted = "ok"
    /\ given.body = "<BODY>Total: $7.50</BODY>"
    /\ body = "Total: $7.50"

\* C22: a body without markup is the text as it is.
C22_WitnessVerbatim ==
    /\ pc = "done"
    /\ converted = "none"
    /\ given.body = FullReceipt
    /\ body = FullReceipt

(***************************************************************************)
(* Properties of the order of the stages                                   *)
(***************************************************************************)
\* the steps from one stage of a call to the next that the order text,
\* vendor, vendor-specific set, generic cascade, date, items, confidence
\* allows
StageSteps ==
    {<<"idle", "identify">>, <<"identify", "vendor_specific">>, <<"identify", "generic">>,
     <<"vendor_specific", "generic">>, <<"generic", "date">>, <<"date", "items">>,
     <<"items", "confidence">>, <<"confidence", "done">>}

\* C23: a call goes through its stages in the order text, vendor,
\* vendor-specific set, generic cascade, date, items, confidence, the text
\* being bound when the vendor is looked for and the vendor-specific set
\* running exactly for a vendor that has a set; the date step writes at most
\* once and after every write of the cascades, so that a date the
\* vendor-specific set wrote is canonical afterwards when it parses; and the
\* confidence is the last thing written, computed from the eight fields as
\* the returned record has them.
C23_StageOrder ==
    /\ [][(pc' # pc /\ pc' \notin {"raised", "idle"}) =>
             /\ <<pc, pc'>> \in StageSteps
             /\ pc' = "identify" => body' = (IF converted' = "ok"
                                             THEN HtmlToText(given'.body)
                                             ELSE given'.body)
             /\ pc = "identify" =>
                   (pc' = "vendor_specific"
                       <=> vendor' # None /\ Lower(vendor'.s) \in DOMAIN self.vendor_patterns)]_vars
    /\ [](AfterNormalizer =>
             /\ Cardinality(WritesToBy("date", {"date"})) <= 1
             /\ \A k \in WritesToBy("date", {"date"}) :
                   \A j \in 1..Len(writes) :
                      writes[j].by \in {"identify", "vendor_specific", "generic"} => j < k
             /\ (WritesToBy("date", {"vendor_specific"}) # {}
                    /\ DateutilParse(raw_date.s).ok) =>
                   IsIsoDateOf(receipt_data.date.s, raw_date.s))
    /\ [](pc = "done" =>
             /\ writes[Len(writes)] = [by |-> "confidence", field |-> "confidence"]
             /\ 3 * 5 * 10 * receipt_data.confidence.n
                   = ConfidenceScale * (5 * 7 * RequiredNonNull + 3 * 3 * OptionalNonNull))

\* C23: Amazon's set wrote the date "January 5, 2024" and a total, the
\* generic cascade ran after it, the date step made the date 2024-01-05, and
\* the confidence, written last, counts vendor, date and total.
C23_Witness ==
    /\ pc = "done"
    /\ vs_key = "amazon"
    /\ WritesToBy("date", {"vendor_specific"}) # {}
    /\ WritesToBy("date", {"generic"}) = {}
    /\ raw_date = Str("January 5, 2024")
    /\ receipt_data.date = Str("2024-01-05")
    /\ receipt_data.total # None
    /\ RequiredNonNull = 3
    /\ writes[Len(writes)].by = "confidence"

(***************************************************************************)
(* Properties of the sender's domain                                       *)
(***************************************************************************)
\* the text of the sender from just after position at up to the next ">" or
\* the end, in lower case
TextAfter(from, at) ==
    LET ends == {j \in (at + 1)..Len(from) : SubSeq(from, j, j) = ">"}
        end == IF ends = {} THEN Len(from) + 1
               ELSE CHOOSE j \in ends : \A h \in ends : j <= h
    IN  Lower(SubSeq(from, at + 1, end - 1))

\* the positions of "@" in the sender, all of them and those that have a
\* character other than ">" right after them
Ats(from) == {k \in 1..Len(from) : SubSeq(from, k, k) = "@"}
AtsWithText(from) ==
    {k \in Ats(from) : k < Len(from) /\ SubSeq(from, k + 1, k + 1) # ">"}

\* the entries of the domain table whose key is part of the text
KeysIn(text) == {k \in 1..Len(domain_to_vendor) : Contains(text, domain_to_vendor[k][1])}

\* what the identifier returns for a subject that has passed the gate when
\* the lookup is made with the text after position at of the sender
LookedUpAfter(at) ==
    LET keys == KeysIn(TextAfter(email_data.from, at))
    IN  /\ \A k \in keys : Least(k, keys) => vendor = Str(domain_to_vendor[k][2])
        /\ (keys = {} /\ SubjectNames(email_data.subject) = {}) => vendor = None

\* C24, as stated: the lookup is made with the lower-cased text after the
\* first "@" of the sender up to the next ">" or the end; the first key in
\* table order that is part of that text gives the vendor, and when no key
\* is part of it (and the subject names no vendor) there is none.
C24_AfterFirstAt ==
    (Identified /\ ~NoKeyword(email_data.subject)) =>
       \A at \in Ats(email_data.from) :
          Least(at, Ats(email_data.from)) => LookedUpAfter(at)

\* C24: the lookup is made with the lower-cased text after the first "@" of
\* the sender that has a character other than ">" right after it, up to the
\* next ">" or the end; the first key in table order that is part of that
\* text gives the vendor, and when no key is part of it (and the subject
\* names no vendor) there is none.
C24_AfterFirstAtWithText ==
    (Identified /\ ~NoKeyword(email_data.subject)) =>
       /\ \A at \in AtsWithText(email_data.from) :
             Least(at, AtsWithText(email_data.from)) => LookedUpAfter(at)
       /\ (AtsWithText(email_data.from) = {} /\ SubjectNames(email_data.subject) = {}) =>
             vendor = None

\* C24: the domain walmart.com.amazon.com holds the keys walmart.com and
\* amazon.com; amazon.com comes first in the table and Amazon is returned.
C24_Witness ==
    /\ Identified
    /\ email_data.from = "deals@walmart.com.amazon.com"
    /\ ~NoKeyword(email_data.subject)
    /\ TextAfter(email_data.from, 6) = "walmart.com.amazon.com"
    /\ KeysIn(TextAfter(email_data.from, 6)) = {1, 2}
    /\ vendor = Str("Amazon")

\* C24: the first "@" of "<joe@> orders@amazon.com" has ">" right after it;
\* the lookup is made with the text after the second one and Amazon is
\* returned.
C24_WitnessSecondAt ==
    /\ Identified
    /\ email_data.from = "<joe@> orders@amazon.com"
    /\ Ats(email_data.from) = {5, 14}
    /\ AtsWithText(email_data.from) = {14}
    /\ TextAfter(email_data.from, 5) = ""
    /\ TextAfter(email_data.from, 14) = "amazon.com"
    /\ vendor = Str("Amazon")

(***************************************************************************)
(* Properties of the "items" entry of a vendor-specific set                *)
(***************************************************************************)
\* the entries of the set that ran which are for the field
EntriesFor(field) ==
    {k \in 1..Len(vendor_patterns[vs_key]) : vendor_patterns[vs_key][k][1] = field}

\* the entry matches in the text and its first group converts
EntryCaptures(k) ==
    LET entry == vendor_patterns[vs_key][k]
    IN  /\ ReSearchI(entry[2], body).ok
        /\ Convert(entry[1], Strip(Group(ReSearchI(entry[2], body), body, 1))).ok

EntryCaptured(k) ==
    LET entry == vendor_patterns[vs_key][k]
    IN  Convert(entry[1], Strip(Group(ReSearchI(entry[2], body), body, 1))).v

\* C25: when a vendor-specific set has run, each scored field other than the
\* vendor holds what the set's own entry for that field captured and is null
\* when the set has no entry for it or the entry captured nothing, whatever
\* an "items" entry captured; and in every returned record items is the list
\* the extractor gives on the text, and the confidence is the formula on the
\* eight scored fields.
C25_ItemsEntryHasNoEffect ==
    /\ (pc = "generic" /\ vs_key # "") =>
          \A field \in ScoredFields \ {"vendor"} :
             /\ \A k \in EntriesFor(field) :
                   receipt_data[field] = IF EntryCaptures(k) THEN EntryCaptured(k) ELSE None
             /\ EntriesFor(field) = {} => receipt_data[field] = None
    /\ pc = "done" =>
          /\ receipt_data.items
                = List(ItemsOfShape(1) \o ItemsOfShape(2) \o ItemsOfShape(3))
          /\ 3 * 5 * 10 * receipt_data.confidence.n
                = ConfidenceScale * (5 * 7 * RequiredNonNull + 3 * 3 * OptionalNonNull)

\* C25: Amazon's set wrote items from "Subtotal: $30.00"; the returned
\* record has the items the extractor finds in the text under items, the
\* total and the subtotal the generic cascade took, and a confidence that
\* counts the vendor, the total and the subtotal only.
C25_Witness ==
    /\ pc = "done"
    /\ vs_key = "amazon"
    /\ body = "Subtotal: $30.00\n2 x Widget $5.00"
    /\ WritesToBy("items", {"vendor_specific"}) # {}
    /\ receipt_data.items.k = "list"
    /\ Len(receipt_data.items.l) >= 1
    /\ receipt_data.items.l[1].name = "Widget"
    /\ generic_entry.items = Str("30.00")
    /\ generic_entry.subtotal = None
    /\ receipt_data.subtotal = Float(3000)
    /\ RequiredNonNull = 2
    /\ OptionalNonNull = 1
    /\ receipt_data.confidence.n * 150 = 79 * ConfidenceScale

(***************************************************************************)
(* Properties of the loop over the fetched emails                          *)
(***************************************************************************)
\* how the turns of the loop ended so far, in fetch order
EmailSteps == SelectSeq(steps, LAMBDA e : e.step = "email")

\* the fetched emails among the first n whose turn ended with a record in
\* the result, in fetch order
RECURSIVE AcceptedEmails(_)
AcceptedEmails(n) ==
    IF n = 0 THEN <<>>
    ELSE IF EmailSteps[n].note = "accepted"
         THEN Append(AcceptedEmails(n - 1), emails[n])
         ELSE AcceptedEmails(n - 1)

\* C26: an exception in one turn of the loop ends that turn only.  While
\* the loop runs there has been one turn for each email before the current
\* one, and when it is over one turn for every fetched email, whether or
\* not parse or the saving of a record raised in an earlier turn; a turn
\* ended with the exception of parse exactly for the emails parse raises
\* on; and the result holds one record for each email whose turn accepted
\* one, in fetch order, each with the subject and the sender of its email.
C26_LoopGoesOn ==
    /\ run_pc = "loop" => i <= Len(emails) + 1 /\ Len(EmailSteps) = i - 1
    /\ (run_pc \in {"fetched", "returned"} /\ emails # <<>>) =>
          Len(EmailSteps) = Len(emails)
    /\ Len(EmailSteps) <= Len(emails)
    /\ \A k \in 1..Len(EmailSteps) :
          EmailSteps[k].note = "raised" <=> ParseRaises(emails[k])
    /\ Len(EmailSteps) <= Len(emails) =>
          LET kept == AcceptedEmails(Len(EmailSteps))
          IN  /\ Len(receipts) = Len(kept)
              /\ \A k \in 1..Len(kept) :
                    /\ receipts[k].email_subject = Get(kept[k], "subject")
                    /\ receipts[k].email_from = Get(kept[k], "from")

\* C26: parse raised on the first email, whose body is null, and the second
\* email was still parsed and accepted.
C26_Witness ==
    /\ run_pc = "fetched"
    /\ Len(emails) = 2
    /\ ParseRaises(emails[1])
    /\ "body" \in emails[1].null
    /\ emails[2].body = FullReceipt
    /\ EmailSteps = <<Step("email", "raised"), Step("email", "accepted")>>
    /\ Len(receipts) = 1
    /\ receipts[1].email_subject = Str(emails[2].subject)
    /\ receipts[1].confidence = Float(ConfidenceScale)

\* C26: the first email was accepted, parse raised on the second, and the
\* first record is still in the result.
C26_WitnessKept ==
    /\ run_pc = "fetched"
    /\ Len(emails) = 2
    /\ emails[1].body = FullReceipt
    /\ ParseRaises(emails[2])
    /\ Len(receipts) = 1
    /\ receipts[1].confidence = Float(ConfidenceScale)

\* C26: the saving of the first record raised after the record had been
\* appended, no file was written for it, and the second email was still
\* processed.
C26_WitnessSave ==
    /\ run_pc = "fetched"
    /\ save_receipts
    /\ Len(emails) = 2
    /\ Len(receipts) = 2
    /\ Len(saved) = 1
    /\ saved[1].index = 1

(***************************************************************************)
(* Properties of run                                                       *)
(***************************************************************************)
\* the steps of run taken so far, without the turns of the loop
RunSteps == SelectSeq(steps, LAMBDA e : e.step # "email")

\* the order of the steps in run, lines 238-257
StepOrder == <<"email_auth", "sheets", "fetch", "write">>

\* a step of run ended in failure
StepFailed == \E k \in 1..Len(RunSteps) : RunSteps[k].note \in {"failed", "guard"}

\* C27: the steps of run are taken in the order email authentication,
\* sheets setup, fetch-and-process, spreadsheet write, each at most once;
\* the sheets setup comes only after an email authentication that
\* succeeded, the fetch only after both setups succeeded, and the write only
\* with at least one accepted receipt; nothing is handed to the spreadsheet
\* without a write step; and when run has returned its value is False
\* exactly when a setup step or the write failed, so it is True when no
\* receipt was found.
C27_RunOrder ==
    /\ Len(RunSteps) <= Len(StepOrder)
    /\ \A k \in 1..Len(RunSteps) :
          /\ RunSteps[k].step = StepOrder[k]
          /\ k > 1 => RunSteps[k - 1].note = "ok"
    /\ (Len(RunSteps) = 4) => receipts # <<>>
    /\ sent_rows # <<>> => Len(RunSteps) = 4 /\ sent_rows = RowsOf(receipts)
    /\ run_pc = "returned" =>
          /\ result \in {"True", "False"}
          /\ result = "False" <=> StepFailed
          /\ result = "True" =>
                /\ Len(RunSteps) >= 3
                /\ Len(RunSteps) = 3 <=> receipts = <<>>
    /\ run_pc # "returned" => result = "none" /\ ~StepFailed

\* C27: both setups succeeded, emails were fetched, none gave a receipt, and
\* run returned True without a write.
C27_Witness ==
    /\ run_pc = "returned"
    /\ result = "True"
    /\ emails # <<>>
    /\ receipts = <<>>
    /\ [k \in 1..Len(RunSteps) |-> RunSteps[k].step] = <<"email_auth", "sheets", "fetch">>
    /\ sent_rows = <<>>

\* C27: the write of two receipts failed and run returned False.
C27_WitnessWriteFailed ==
    /\ run_pc = "returned"
    /\ result = "False"
    /\ Len(receipts) = 2
    /\ RunSteps[4] = Step("write", "failed")

\* C27: the sheets setup failed after the email authentication, nothing was
\* fetched and run returned False.
C27_WitnessSetupFailed ==
    /\ run_pc = "returned"
    /\ result = "False"
    /\ RunSteps = <<Step("email_auth", "ok"), Step("sheets", "failed")>>
    /\ emails = <<>>

(***************************************************************************)
(* Properties of the collaborators                                         *)
(***************************************************************************)
\* the data operations of the sheets object
SheetsOperations == {"create_spreadsheet", "update_values", "append_values", "get_values",
                     "add_receipt_to_spreadsheet", "add_multiple_receipts"}

\* the last step of the log, if any, is the guard of the named method
GuardReturned(step) == steps # <<>> /\ steps[Len(steps)] = Step(step, "guard")

\* a step of the scraper, as against a call made on a collaborator itself
ScraperStep == run_pc # "idle" \/ run_pc' # "idle"

\* C28: a data operation of a collaborator that is called while
\* is_authenticated() is false raises and does not get to its remote call,
\* so that nothing is written through a sheets object that was never
\* authenticated; fetch_and_process_emails on an unauthenticated email
\* authenticator returns an empty list, and add_receipts_to_spreadsheet on
\* an unauthenticated sheets object returns False; and no step of the
\* scraper calls a data operation on an unauthenticated collaborator.
C28_GuardedOperations ==
    /\ [](/\ (last_op.op # "none" /\ ~last_op.authenticated) =>
                last_op.raised /\ ~last_op.remote
          /\ last_op.op \in SheetsOperations => last_op.authenticated = sheets_authenticated
          /\ ~sheets_authenticated => sent_rows = <<>> /\ handed = <<>> /\ header = <<>>
          /\ (run_pc = "fetched" /\ ~email_authenticated) =>
                emails = <<>> /\ receipts = <<>> /\ GuardReturned("fetch")
          /\ (run_pc = "returned" /\ ~sheets_authenticated /\ Len(steps) > 0) =>
                result = "False" /\ GuardReturned("write"))
    /\ [][ScraperStep /\ last_op' # last_op => last_op'.authenticated]_vars

\* C28: fetch_emails raised on an authenticator that had been disconnected,
\* and fetch_and_process_emails then returned an empty list.
C28_Witness ==
    /\ run_pc = "fetched"
    /\ auth_calls = <<"authenticate_true", "disconnect">>
    /\ last_op = [op |-> "fetch_emails", authenticated |-> FALSE, raised |-> TRUE,
                  remote |-> FALSE]
    /\ emails = <<>>
    /\ GuardReturned("fetch")

\* C28: add_receipts_to_spreadsheet was called with two receipts on a
\* sheets object that is not authenticated and returned False.
C28_WitnessWrite ==
    /\ run_pc = "returned"
    /\ Len(receipts) = 2
    /\ result = "False"
    /\ GuardReturned("write")
    /\ sent_rows = <<>>

\* C28: add_multiple_receipts raised on a sheets object that is not
\* authenticated.
C28_WitnessSheets ==
    /\ last_op = [op |-> "add_multiple_receipts", authenticated |-> FALSE, raised |-> TRUE,
                  remote |-> FALSE]
    /\ sent_rows = <<>>

\* C28: fetch_emails on an authenticated IMAP authenticator got to its
\* remote call.
C28_WitnessAuthenticated ==
    /\ auth_type = "imap"
    /\ last_op = [op |-> "fetch_emails", authenticated |-> TRUE, raised |-> FALSE,
                  remote |-> TRUE]

\* the last of the authenticate and disconnect calls on the email
\* authenticator was an authenticate that answered True
LastCallAuthenticated ==
    auth_calls # <<>> /\ auth_calls[Len(auth_calls)] = "authenticate_true"

\* C29: after any sequence of authenticate() and disconnect() calls on an
\* email authenticator, is_authenticated() is true exactly when the last
\* of these calls was an authenticate() that returned True.
C29_FlagFollowsLastCall == email_authenticated <=> LastCallAuthenticated

\* C29: the part of the statement that the code keeps: after a disconnect
\* the authenticator is unauthenticated, after an authenticate that
\* answered True it is authenticated, and an authenticator that has never
\* answered True is unauthenticated.
C29_FlagAfterSuccessOrDisconnect ==
    /\ LastCallAuthenticated => email_authenticated
    /\ (auth_calls # <<>> /\ auth_calls[Len(auth_calls)] = "disconnect") =>
          ~email_authenticated /\ link = "none"
    /\ (\A k \in 1..Len(auth_calls) : auth_calls[k] # "authenticate_true") =>
          ~email_authenticated

\* C29: an IMAP authenticator answered True, then False when the login on
\* a new connection failed, and is_authenticated() is still true, with a
\* connection that is not logged in.
C29_Witness ==
    /\ auth_type = "imap"
    /\ auth_calls = <<"authenticate_true", "authenticate_false">>
    /\ email_authenticated
    /\ link = "open"

(***************************************************************************)
(* Properties of the acceptance test                                       *)
(***************************************************************************)
\* the caller's test has been applied to the record and kept it
Kept == receipts = <<receipt_data>>

\* C30: once the caller's test has been applied to a scored record, the
\* record is kept if at least two of vendor, date and total are non-null;
\* with exactly one of them it is kept exactly when at least two of the
\* five optional fields are non-null; with none of them it is kept exactly
\* when all five optional fields are non-null; and a record whose only
\* non-null scored field is the vendor is skipped.
C30_AcceptanceByCounts ==
    run_pc = "fetched" =>
       /\ Kept \/ receipts = <<>>
       /\ RequiredNonNull >= 2 => Kept
       /\ RequiredNonNull = 1 => (Kept <=> OptionalNonNull >= 2)
       /\ RequiredNonNull = 0 => (Kept <=> OptionalNonNull = 5)
       /\ (receipt_data.vendor # None /\ RequiredNonNull + OptionalNonNull = 1) => ~Kept

\* C30: a record without vendor, date and total but with all five optional
\* fields scores exactly 0.3 and is kept.
C30_Witness ==
    /\ run_pc = "fetched"
    /\ RequiredNonNull = 0
    /\ OptionalNonNull = 5
    /\ receipt_data.confidence = Float(Threshold)
    /\ Kept

\* C30: a record in which only the vendor was identified is skipped.
C30_WitnessVendorOnly ==
    /\ run_pc = "fetched"
    /\ receipt_data.vendor = Str("Amazon")
    /\ RequiredNonNull + OptionalNonNull = 1
    /\ receipts = <<>>

\* C30: a record with one required and one optional field is skipped, and
\* one with a total of 0.0 and two optional fields is kept.
C30_WitnessOneRequired ==
    /\ run_pc = "fetched"
    /\ receipt_data.total = Float(0)
    /\ RequiredNonNull = 1
    /\ OptionalNonNull = 2
    /\ Kept

====
